---- MODULE Spec2Model ----
(***************************************************************************)
(* Model of the installer engine of sis-install.py: the package catalog    *)
(* (DB), the execution context (MONITOR), the probe registry (DEPS), the   *)
(* local catalog document (site) and one run of the main script in         *)
(* package-install mode: get_versions, close_packs, the probe check and    *)
(* the scheduling loop of install_packs with Version.install.              *)
(***************************************************************************)
EXTENDS Integers, Sequences, FiniteSets, TLC

\* ------------------------------------------------------------ bounds
\* Largest number of req/use references in an enumerated catalog graph.
MaxEdges == 2
\* Largest number of package names given on the command line.
MaxNames == 2
\* Largest number of packages the local catalog document marks installed.
MaxInstalled == 1
\* Largest number of packages whose build description departs from the
\* plain one in the catalogs that vary the build descriptions.
MaxVariants == 1
\* Largest number of elements in an install script or an uninstall block.
MaxScript == 2
\* Largest length of the version strings compared, and largest number of
\* pieces of the texts evaluated.
MaxText == 3
\* Largest number of package elements in a catalog document.
MaxElts == 2
\* Largest number of catalog documents loaded one after the other.
MaxDocs == 2

\* --------------------------------------------------------- constants
Packs == {"A", "B", "C"}
SRCE_VERS == "source"
NULL_VERS == "0.0"
\* Python's None where a string is expected.
None == "None"
\* Package.rank before get_rank has computed it (None in the source).
NoRank == -1
\* The version string read from a VERSION file by get_version.
FILE_VERS == "3.0"

VARIABLES
    DB,          \* package id -> Package object
    MONITOR,     \* the execution context
    DEPS,        \* probe name -> [tested, succeeded]
    site,        \* the local catalog document at MONITOR.site_path
    pc,          \* position of the main script
    names,       \* the package arguments of the command line
    vs,          \* the version set built by get_versions
    to_install,  \* the work map of install_packs
    done,        \* the list done of install_packs
    log,         \* the download/build/install/save steps started so far
    exc,         \* the fatal message or the uncaught exception, if any
    version_file, \* whether a readable VERSION file is in the working directory
    loaded,      \* the packages the local catalog document marked installed
                 \* when it was loaded
    mode,        \* the action the command line selects
    DEBUG,       \* the debug flag of the script
    host,        \* the files the execution context creates on the host
    packs,       \* the packages uninstall_packs works on
    stdin,       \* the line the user answers a question with
    effects,     \* the kinds of effect the run has had on its environment
    script       \* the Action or the action elements at hand, what is done
                 \* with them and what comes out

vars == <<DB, MONITOR, DEPS, site, pc, names, vs, to_install, done, log, exc,
          version_file, loaded, mode, DEBUG, host, effects, packs,
          stdin, script>>

\* ------------------------------------------------------------ helpers
Range(s) == {s[i] : i \in 1..Len(s)}

Max(S) == CHOOSE x \in S : \A y \in S : y <= x

\* A Version object: identified by its package and its version string.
V(p, s) == [pack |-> p, version |-> s]
\* None where a Version is expected.
NoVersion == V(None, None)

\* Builder.install results: None, False or a list of actions.
ResNone == [tag |-> "None", acts |-> <<>>]
ResFalse == [tag |-> "False", acts |-> <<>>]
ResList(acts) == [tag |-> "list", acts |-> acts]

\* The absence of an Action (None where an Action is expected).
NoAction == [id |-> "None"]

Remove(path) == [id |-> "remove", path |-> path]

\* Install.__init__.
Install(path, to) ==
    [id |-> "install", path |-> path, to |-> IF to # None THEN to ELSE path]

\* An element of an install script or of an uninstall block.
ActionElt(tag, attrib) == [tag |-> tag, attrib |-> attrib]

\* elt.get(key, None).
get(elt, key) == IF key \in DOMAIN elt.attrib THEN elt.attrib[key] ELSE None

\* elt.set(key, value).
set(elt, key, value) ==
    [elt EXCEPT !.attrib = [k \in DOMAIN @ \cup {key} |->
                               IF k = key THEN value ELSE @[k]]]

\* The host types Monitor.get_host_type can return.
KNOWN_CONFIGS ==
    {"linux-x86", "linux-x86_64", "win", "win64", "darwin-x86_64",
     "darwin-arm64"}

DYNLIB_EXT ==
    [h \in {"linux_x86", "linux-x86_64", "win", "win64", "darwin-x86_64",
            "darwin-arm64"} |->
        CASE h \in {"linux_x86", "linux-x86_64"} -> ".so"
          [] h \in {"win", "win64"} -> ".dll"
          [] OTHER -> ".dylib"]

\* What a parse method does: it fills the Action or raises.
Parsed(a) == [raises |-> "", a |-> a]

Raised(e) == [raises |-> e, a |-> NoAction]

\* Remove.parse on a fresh Remove().
Remove_parse(elt, host_type) ==
    IF get(elt, "path") = None THEN Raised("IOError")
    ELSE Parsed(Remove(get(elt, "path")))

\* Install.parse on a fresh Install(): self.to is None when it starts, and
\* the "to" attribute is read into a local the method does not use.
Install_parse(elt, host_type) ==
    LET self == Install(None, None)
        dynlib == get(elt, "dynlib")
        file == get(elt, "file")
    IN IF dynlib # None /\ host_type \notin DOMAIN DYNLIB_EXT
       THEN Raised("KeyError")
       ELSE IF dynlib = None /\ file = None THEN Raised("IOError")
       ELSE LET ext == IF dynlib # None THEN DYNLIB_EXT[host_type] ELSE ""
                path == (IF dynlib # None THEN dynlib ELSE file) \o ext
                to == IF self.to = None THEN path ELSE self.to
            IN Parsed([id |-> "install", path |-> path, to |-> to \o ext])

\* The keys of the table ACTIONS.
ActionTags == {"install", "remove"}

\* get_action: the Action of an element, or None for an unknown tag or when
\* parse raises KeyError or IOError.
get_action(elt, host_type) ==
    IF elt.tag \notin ActionTags THEN NoAction
    ELSE LET r == IF elt.tag = "install" THEN Install_parse(elt, host_type)
                  ELSE Remove_parse(elt, host_type)
         IN IF r.raises # "" THEN NoAction ELSE r.a

\* Remove.save and Install.save on the element save_action has created.
Action_save(action, elt) ==
    IF action.id = "remove" THEN set(elt, "path", action.path)
    ELSE set(set(elt, "file", action.path), "to", action.to)

\* save_action(parent, action), parent being the list of the elements.
save_action(parent, action) ==
    Append(parent, Action_save(action, ActionElt(action.id, <<>>)))

\* The Actions of the elements, in order.
get_actions(elts, host_type) ==
    [i \in 1..Len(elts) |-> get_action(elts[i], host_type)]

\* Faulty variant: the elements that give no Action are skipped.
install_script_skipping(elts, host_type) ==
    [raises |-> "",
     actions |-> SelectSeq(get_actions(elts, host_type),
                           LAMBDA a : a # NoAction)]

\* The loop of BinaryVersion.install over the elements of the install
\* script (lines 1006-1011): the list of the Actions, or IOError("bad
\* action") at the first element that gives none.
install_script(elts, host_type) ==
    LET acts == get_actions(elts, host_type)
    IN IF \E i \in 1..Len(acts) : acts[i] = NoAction
       THEN [raises |-> "bad action", actions |-> <<>>]
       ELSE [raises |-> "", actions |-> acts]

\* The loop of load_db over the elements of an uninstall block (lines
\* 1304-1308): the Actions appended to pack.uninstall, and whether the
\* assertion stopped the load.
load_db_uninstall(elts, host_type) ==
    LET acts == get_actions(elts, host_type)
        bad == {i \in 1..Len(acts) : acts[i] = NoAction}
        first == CHOOSE i \in bad : \A j \in bad : i <= j
    IN IF bad = {}
       THEN [raises |-> "", actions |-> acts]
       ELSE [raises |-> "AssertionError",
             actions |-> SubSeq(acts, 1, first - 1)]

\* Faulty variant: the reverse of an Install removes its source.
reverse_source(action) ==
    IF action.id = "install" THEN Remove(action.path) ELSE NoAction

\* Action.reverse, Install.reverse.
reverse(action) ==
    IF action.id = "install" THEN Remove(action.to) ELSE NoAction

\* ------------------------------------------------------------------ text
\* A text is the sequence of its characters; ord gives the code point of
\* the characters used.
ord ==
    [c \in {" ", "$", "(", ")", ".", "0", "1", "2", "9", "A", "B", "x"} |->
        CASE c = " " -> 32 [] c = "$" -> 36 [] c = "(" -> 40 [] c = ")" -> 41
          [] c = "." -> 46 [] c = "0" -> 48 [] c = "1" -> 49 [] c = "2" -> 50
          [] c = "9" -> 57 [] c = "A" -> 65 [] c = "B" -> 66 [] OTHER -> 120]

\* str.split(): the maximal runs of characters other than whitespace; cur
\* is the run being read.
RECURSIVE split_from(_, _, _)
split_from(text, cur, res) ==
    IF text = <<>> THEN (IF cur = <<>> THEN res ELSE Append(res, cur))
    ELSE IF Head(text) = " "
    THEN split_from(Tail(text), <<>>,
                    IF cur = <<>> THEN res ELSE Append(res, cur))
    ELSE split_from(Tail(text), Append(cur, Head(text)), res)

split(text) == split_from(text, <<>>, <<>>)

\* a > b and a < b on strings: the first character that differs decides,
\* else the longer string is the greater.
RECURSIVE str_gt(_, _)
str_gt(a, b) ==
    IF a = <<>> THEN FALSE
    ELSE IF b = <<>> THEN TRUE
    ELSE IF Head(a) # Head(b) THEN ord[Head(a)] > ord[Head(b)]
    ELSE str_gt(Tail(a), Tail(b))

RECURSIVE str_lt(_, _)
str_lt(a, b) ==
    IF b = <<>> THEN FALSE
    ELSE IF a = <<>> THEN TRUE
    ELSE IF Head(a) # Head(b) THEN ord[Head(a)] < ord[Head(b)]
    ELSE str_lt(Tail(a), Tail(b))

\* x > y and x < y on lists of strings: the first element that differs
\* decides, by the comparison of strings, else the longer list is the
\* greater.
RECURSIVE list_gt(_, _)
list_gt(x, y) ==
    IF x = <<>> THEN FALSE
    ELSE IF y = <<>> THEN TRUE
    ELSE IF Head(x) # Head(y) THEN str_gt(Head(x), Head(y))
    ELSE list_gt(Tail(x), Tail(y))

RECURSIVE list_lt(_, _)
list_lt(x, y) ==
    IF y = <<>> THEN FALSE
    ELSE IF x = <<>> THEN TRUE
    ELSE IF Head(x) # Head(y) THEN str_lt(Head(x), Head(y))
    ELSE list_lt(Tail(x), Tail(y))

is_younger(v1, v2) == list_gt(split(v1), split(v2))

\* Faulty variant: older is taken as not younger.
is_older_not_younger(v1, v2) == ~is_younger(v1, v2)

is_older(v1, v2) == list_lt(split(v1), split(v2))

\* The characters [a-zA-Z0-9_] among those used.
NameChars == {"0", "1", "2", "9", "A", "B", "x"}

\* Monitor.get: the value of the variable, or the default.
Monitor_get(env, name, default) ==
    IF name \in DOMAIN env THEN env[name] ELSE default

\* The end of the longest run of name characters of str from index j on:
\* the index of the first character after it.
RECURSIVE name_end(_, _)
name_end(str, j) ==
    IF j <= Len(str) /\ str[j] \in NameChars THEN name_end(str, j + 1) ELSE j

NoMatch == [found |-> FALSE, s |-> 0, end |-> 0, group3 |-> <<>>,
            group4 |-> FALSE]

\* The part \$\(([a-zA-Z0-9_]+)\) of var_re tried at index j; s is where
\* the replaced text starts and end the index after the match.
var_at(str, j, s) ==
    LET k == name_end(str, j + 2)
    IN  IF /\ j + 1 <= Len(str)
           /\ str[j] = "$"
           /\ str[j + 1] = "("
           /\ k > j + 2
           /\ k <= Len(str)
           /\ str[k] = ")"
        THEN [found |-> TRUE, s |-> s, end |-> k + 1,
              group3 |-> SubSeq(str, j + 2, k - 1), group4 |-> FALSE]
        ELSE NoMatch

\* var_re tried at index i (indices start at 1): "^" holds at the start of
\* the whole string only, "[^$]" takes one character other than "$", and
\* the second alternative is "$$".  s follows eval: the start of the match
\* when the match begins with "$", else one after.
match_at(str, i) ==
    IF i = 1 /\ var_at(str, i, i).found THEN var_at(str, i, i)
    ELSE IF i <= Len(str) /\ str[i] # "$" /\ var_at(str, i + 1, i + 1).found
    THEN var_at(str, i + 1, i + 1)
    ELSE IF i + 1 <= Len(str) /\ str[i] = "$" /\ str[i + 1] = "$"
    THEN [found |-> TRUE, s |-> i, end |-> i + 2, group3 |-> <<>>,
          group4 |-> TRUE]
    ELSE NoMatch

\* var_re.search(str, p): the leftmost match that starts at p or after.
RECURSIVE var_re_search(_, _)
var_re_search(str, p) ==
    IF p > Len(str) THEN NoMatch
    ELSE IF match_at(str, p).found THEN match_at(str, p)
    ELSE var_re_search(str, p + 1)

\* The loop of Monitor.eval: the match is replaced and the search resumes
\* after the replacement.
RECURSIVE eval_while(_, _, _)
eval_while(env, str, p) ==
    LET m == var_re_search(str, p)
        rep == IF m.group4 THEN <<"$">> ELSE Monitor_get(env, m.group3, <<>>)
    IN  IF ~m.found THEN str
        ELSE eval_while(env,
                        SubSeq(str, 1, m.s - 1) \o rep
                            \o SubSeq(str, m.end, Len(str)),
                        m.s + Len(rep))

\* Monitor.eval.
eval(env, str) == eval_while(env, str, 1)

\* ---------------------------------------------------------- do_closure
\* The inner loop "for w in f(v)": appends each unseen w to res and todo.
RECURSIVE closure_for(_, _, _)
closure_for(ws, res, todo) ==
    IF ws = <<>> THEN [res |-> res, todo |-> todo]
    ELSE LET w == Head(ws) IN
         IF w \in Range(res)
         THEN closure_for(Tail(ws), res, todo)
         ELSE closure_for(Tail(ws), Append(res, w), Append(todo, w))

\* The loop "while todo != []" with v = todo.pop() (the last element).
RECURSIVE closure_while(_, _, _)
closure_while(f, res, todo) ==
    IF todo = <<>> THEN res
    ELSE LET v == todo[Len(todo)]
             r == closure_for(f[v], res, SubSeq(todo, 1, Len(todo) - 1))
         IN closure_while(f, r.res, r.todo)

\* do_closure(f, s), f being given as the function from an item to the
\* list of its successors.
do_closure(f, s) == closure_while(f, <<>>, s)

\* --------------------------------------------------------------- probes
\* Predefined probes (CommandDep instances created at import time).
CMAKE_DEP == "cmake"
HG_DEP == "mercurial"
GIT_DEP == "git"
C_DEP == "cc"
CPP_DEP == "c++"
MAKE_DEP == "make"
TAR_DEP == "tar"
GZIP_DEP == "gzip"
\* Probes a catalog declares with <dep>: two libraries and one command.
LibraryDeps == {"libz", "libqt"}
CatalogDeps == LibraryDeps \cup {"flex"}
Probes == {CMAKE_DEP, HG_DEP, GIT_DEP, C_DEP, CPP_DEP, MAKE_DEP, TAR_DEP, GZIP_DEP}
              \cup CatalogDeps
\* The lang attribute of a library probe.
lang(d) == IF d = "libqt" THEN "c++" ELSE "c"

\* LibraryDep.dep: the compiler probe a library probe is tested with.
dep(d) == IF lang(d) = "c++" THEN CPP_DEP ELSE C_DEP

\* Dep.added_deps / LibraryDep.added_deps.
added_deps(d) == IF d \in LibraryDeps THEN <<dep(d)>> ELSE <<>>

\* add_deps(elt, deps): the closure of the probe's added probes, then the probe.
add_deps(d, deps) ==
    Append(deps \o do_closure([x \in Probes |-> added_deps(x)], <<d>>), d)

\* Downloader.add_deps of the three downloader variants.
Downloader_add_deps(kind, deps) ==
    CASE kind = "git" -> Append(deps, GIT_DEP)
      [] kind = "hg" -> Append(deps, HG_DEP)
      [] kind = "archive" -> deps \o <<TAR_DEP, GZIP_DEP>>
      [] OTHER -> deps

\* Builder.add_deps of the three builder variants.
Builder_add_deps(kind, deps) ==
    CASE kind = "make" -> Append(deps, MAKE_DEP)
      [] kind = "cmake" -> Append(deps, CMAKE_DEP)
      [] OTHER -> deps

RECURSIVE add_all_deps(_, _)
add_all_deps(elts, deps) ==
    IF elts = <<>> THEN deps
    ELSE add_all_deps(Tail(elts), add_deps(Head(elts), deps))

\* load_db, "get build information": the probe list of a SourceVersion.
SourceVersion_deps(depelts, downloader, build) ==
    Builder_add_deps(build,
        Downloader_add_deps(downloader, add_all_deps(depelts, <<>>)))

\* ------------------------------------------------------ Package methods
\* The Version objects of package p, in list order.
Versions(p) == {V(p, DB[p].versions[i]) : i \in 1..Len(DB[p].versions)}

\* Package.source: the source version, or None.
source(p) ==
    IF SRCE_VERS \in Range(DB[p].versions) THEN V(p, SRCE_VERS) ELSE NoVersion

\* The positions of the binary versions of p.
Binaries(p) == {i \in 1..Len(DB[p].versions) : DB[p].versions[i] # SRCE_VERS}

\* Package.latest raises AttributeError: with a second binary version it calls
\* is_younger(v, l) on two Version objects, which have no split method.
latest_raises(p) == Cardinality(Binaries(p)) >= 2

\* Package.latest when it returns: the only binary version, else source().
latest(p) ==
    IF Binaries(p) = {} THEN source(p)
    ELSE V(p, DB[p].versions[CHOOSE i \in Binaries(p) : TRUE])

\* Version.deps: [] for a BinaryVersion, the loaded list for a SourceVersion.
deps_of(v) == IF v.version = SRCE_VERS THEN DB[v.pack].deps ELSE <<>>

\* reqs + uses of a package.
Succ(p) == DB[p].reqs \cup DB[p].uses

RECURSIVE Reach(_, _)
\* The packages reachable from the set S by reqs and uses (S included).
Reach(S, seen) ==
    IF S \subseteq seen THEN seen
    ELSE Reach(UNION {Succ(p) : p \in S}, seen \cup S)

\* get_rank(p) never returns (RecursionError): p reaches a reqs/uses cycle.
get_rank_raises(p) ==
    \E q \in Reach({p}, {}) : q \in Reach(Succ(q), {})

RECURSIVE get_rank(_, _)
RECURSIVE get_rank_fold(_, _)
\* Package.get_rank with the memo rk: the memo after the call (rk[p] is the
\* value returned).  Only evaluated when get_rank_raises(p) is false.
get_rank_fold(ps, rk) ==
    IF ps = {} THEN rk
    ELSE LET q == CHOOSE q \in ps : TRUE
         IN get_rank_fold(ps \ {q}, get_rank(q, rk))

\* Faulty variant: the rank is computed from reqs alone, uses left out.
get_rank_reqs(p, rk) ==
    IF rk[p] # NoRank THEN rk
    ELSE IF DB[p].reqs # {}
         THEN LET r2 == get_rank_fold(DB[p].reqs, rk)
              IN [r2 EXCEPT ![p] = Max({r2[q] : q \in DB[p].reqs}) + 1]
         ELSE [rk EXCEPT ![p] = 0]

get_rank(p, rk) ==
    IF rk[p] # NoRank THEN rk
    ELSE IF Succ(p) # {}
         THEN LET r2 == get_rank_fold(Succ(p), rk)
              IN [r2 EXCEPT ![p] = Max({r2[q] : q \in Succ(p)}) + 1]
         ELSE [rk EXCEPT ![p] = 0]

\* ----------------------------------------------------------- get_versions
\* A command-line name: a package id with an optional ":version" part
\* (sel = "latest" when there is none).
Name(p, sel) == [pack |-> p, sel |-> sel]

\* get_versions raises: Package.latest does for a name without version part.
get_versions_raises(ns) ==
    \E n \in ns : n.sel = "latest" /\ latest_raises(n.pack)

\* get_versions reports a fatal error: no version of the package has the
\* version string asked for.
get_versions_fatal(ns) ==
    \E n \in ns : n.sel # "latest" /\ n.sel \notin Range(DB[n.pack].versions)

\* get_versions: the set of versions named (it may hold None, the latest
\* version of a package that has no version).
get_versions(ns) ==
    {IF n.sel = "latest" THEN latest(n.pack) ELSE V(n.pack, n.sel) : n \in ns}

\* ------------------------------------------------------------ close_packs
\* Faulty variant: every requested version is taken, whatever the force flag.
to_be_installed_requested(v, vset, force) ==
    ~DB[v.pack].installed \/ v \in vset

\* Faulty variant: the force flag applies to every version, requested or not.
to_be_installed_forced(v, vset, force) ==
    ~DB[v.pack].installed \/ force

\* The test of line 1476: v is to be installed.
to_be_installed(v, vset, force) ==
    ~DB[v.pack].installed \/ (force /\ v \in vset)

\* rv of lines 1479-1483: the version recorded in vmap for req, latest() else.
vmap_get(vmap, req) ==
    IF req \in DOMAIN vmap THEN vmap[req] ELSE latest(req)

\* Faulty variant: a requirement that is not in vmap is not looked up with latest().
req_versions_requested(v, vmap) ==
    {vmap[req] : req \in DB[v.pack].reqs \cap DOMAIN vmap} \ {NoVersion}

\* The versions rvs a key v depends on (lines 1477-1485): one per requirement
\* of its package, None left out.
req_versions(v, vmap) ==
    {vmap_get(vmap, req) : req \in DB[v.pack].reqs} \ {NoVersion}

\* The possible initial vmap { v.pack: v for v in vs }: with two versions of a
\* package in vs, the one iterated last wins.
vmaps(vset) ==
    LET ps == {v.pack : v \in vset}
    IN {m \in [ps -> vset] : \A q \in ps : m[q].pack = q}

\* close_packs raises AttributeError: None in vs (v.pack), or latest() raises
\* for a requirement that is in no vmap entry.
RECURSIVE close_raises(_, _, _, _, _)
close_raises(todo, res, vset, vmap, force) ==
    IF todo = {} THEN FALSE
    ELSE LET v == CHOOSE v \in todo : TRUE
             rest == todo \ {v}
         IN IF to_be_installed(v, vset, force)
            THEN \/ \E req \in DB[v.pack].reqs :
                        req \notin DOMAIN vmap /\ latest_raises(req)
                 \/ LET rvs == req_versions(v, vmap)
                    IN close_raises(rest \cup {rv \in rvs : rv \notin DOMAIN res},
                                    [x \in DOMAIN res \cup {v} |->
                                        IF x = v THEN rvs ELSE res[x]],
                                    vset, vmap, force)
            ELSE close_raises(rest, res, vset, vmap, force)

\* The loop "while todo" of close_packs: the map to_install it builds.
RECURSIVE close_while(_, _, _, _, _)
close_while(todo, res, vset, vmap, force) ==
    IF todo = {} THEN res
    ELSE LET v == CHOOSE v \in todo : TRUE
             rest == todo \ {v}
         IN IF to_be_installed(v, vset, force)
            THEN LET rvs == req_versions(v, vmap)
                 IN close_while(rest \cup {rv \in rvs : rv \notin DOMAIN res},
                                [x \in DOMAIN res \cup {v} |->
                                    IF x = v THEN rvs ELSE res[x]],
                                vset, vmap, force)
            ELSE close_while(rest, res, vset, vmap, force)

\* close_packs(vs, mon) for one initial vmap: version -> set of versions.
close_packs(vset, vmap, force) == close_while(vset, <<>>, vset, vmap, force)

close_packs_raises(vset, vmap, force) ==
    \/ NoVersion \in vset
    \/ close_raises(vset, <<>>, vset, vmap, force)

\* ---------------------------------------------------------- probe tests
\* Dep.do_test on a host where the probes of avail are present.  A
\* CommandDep succeeds when one of its commands is found; a LibraryDep
\* compiles with the command found by its compiler probe, so it fails
\* when that probe has not succeeded.
do_test(d, deps, avail) ==
    LET ok == IF d \in LibraryDeps
              THEN d \in avail /\ deps[dep(d)].succeeded
              ELSE d \in avail
    IN [deps EXCEPT ![d] = [tested |-> TRUE, succeeded |-> ok]]

\* The loop "for dep in v.deps" of install_packs (lines 1543-1547).
RECURSIVE test_deps(_, _, _)

\* Faulty variant: the loop stops after the first probe of the list.
test_deps_first(ds, st, avail) ==
    IF ds = <<>> \/ st.deps[Head(ds)].tested THEN st
    ELSE LET d2 == do_test(Head(ds), st.deps, avail)
         IN [deps |-> d2,
             failed |-> IF d2[Head(ds)].succeeded THEN st.failed
                        ELSE st.failed + 1]

test_deps(ds, st, avail) ==
    IF ds = <<>> THEN st
    ELSE LET d == Head(ds) IN
         IF st.deps[d].tested
         THEN test_deps(Tail(ds), st, avail)
         ELSE LET d2 == do_test(d, st.deps, avail)
              IN test_deps(Tail(ds),
                           [deps |-> d2,
                            failed |-> IF d2[d].succeeded THEN st.failed
                                       ELSE st.failed + 1],
                           avail)

\* The loop "for v in to_install" (line 1542): the results of every
\* iteration order of the keys.
RECURSIVE test_all(_, _, _)
test_all(keys, st, avail) ==
    IF keys = {} THEN {st}
    ELSE UNION {test_all(keys \ {v}, test_deps(deps_of(v), st, avail), avail)
                   : v \in keys}

\* -------------------------------------------------------------- save_site
Element(id, version, children) ==
    [id |-> id, version |-> version, children |-> children]

\* root.findall("package") ... break: the position of the first element
\* with the id, 0 when there is none.
find_package(root, id) ==
    LET S == {i \in 1..Len(root) : root[i].id = id}
    IN IF S = {} THEN 0 ELSE CHOOSE i \in S : \A j \in S : i <= j

\* pack.find(tag): the position of the first child with the tag, 0 for None.
find(children, tag) ==
    LET S == {i \in 1..Len(children) : children[i].tag = tag}
    IN IF S = {} THEN 0 ELSE CHOOSE i \in S : \A j \in S : i <= j

\* seq without its element at position i.
RemoveAt(seq, i) == SubSeq(seq, 1, i - 1) \o SubSeq(seq, i + 1, Len(seq))

\* "if uninstall": a non-empty list is true; None, False and [] are not.
truthy(res) == res.tag = "list" /\ res.acts # <<>>

\* Faulty variant: the version attribute of the element is not updated.
save_site_install_no_version(root, id, version, uninstall) ==
    IF find_package(root, id) = 0
    THEN Append(root, Element(id, None, <<>>))
    ELSE root

\* The install case of save_site on the parsed document (lines 1333-1363).
save_site_install(root, id, version, uninstall) ==
    LET i0 == find_package(root, id)
        r1 == IF i0 = 0 THEN Append(root, Element(id, None, <<>>)) ELSE root
        i == IF i0 = 0 THEN Len(r1) ELSE i0
        u == find(r1[i].children, "unistall")
        c1 == IF u # 0 THEN RemoveAt(r1[i].children, u) ELSE r1[i].children
        c2 == IF truthy(uninstall)
              THEN Append(c1, [tag |-> "uninstall", actions |-> uninstall.acts])
              ELSE c1
    IN [r1 EXCEPT ![i] = Element(id, version, c2)]

\* ---------------------------------------------------------------- install
\* One started step of an installation, with its result.
Step(v, name, ok) == [v |-> v, step |-> name, ok |-> ok]

\* What the host does to one Version.install: the result of each step.
\* created: a failing write of the document had created the file already.
Outcomes ==
    [download : BOOLEAN, build : BOOLEAN, install : BOOLEAN, save : BOOLEAN,
     created : BOOLEAN]

\* How an installation ends: it returns, mon.fatal ends the process, or an
\* exception nobody catches does.
End(db, st, lg, how, why) ==
    [DB |-> db, site |-> st, log |-> lg, end |-> how, exc |-> why]

\* MakeBuilder.install, CMakeBuilder.install and, for the command builder,
\* Builder.install: the value returned.
\* cmake reports one installed file per package, named after it here.
Builder_install(kind, p, o) ==
    CASE kind = "make" -> IF o.install THEN ResList(<<>>) ELSE ResNone
      [] kind = "cmake" -> IF o.install THEN ResList(<<Remove(p)>>) ELSE ResFalse
      [] OTHER -> ResList(<<>>)

\* SourceVersion.get_version: the first line of the VERSION file of the
\* working directory when it is readable, the version tag otherwise.
get_version(v) == IF version_file THEN FILE_VERS ELSE v.version

\* Whether the builder's install step runs a command at all.
Builder_install_runs(kind) == kind \in {"make", "cmake"}

\* "self.pack.installed = True; self.pack.installed_version = ...".
record_installed(db, p, version) ==
    [db EXCEPT ![p].installed = TRUE, ![p].installed_version = version]

\* The file path + ".old": absent, or the document before the rewrite.
NoFile == [exists |-> FALSE, root |-> <<>>]

Backup(root) == [exists |-> TRUE, root |-> root]

\* The handler of a failed write in save_site (lines 1375-1378), entered
\* with the document renamed to its backup: os.remove(path), then
\* os.rename(old_path, path).  Without a file at path the removal raises and
\* the backup is not put back.
write_failed(st, created) ==
    IF created
    THEN [exists |-> TRUE, root |-> st.root, old |-> NoFile]
    ELSE [exists |-> FALSE, root |-> <<>>, old |-> Backup(st.root)]

\* save_site(mon.site_path, pack, mon, uninstall) as called by the two
\* install methods: the document is rewritten, or the run ends: no document
\* to open, or a failed write and its handler; install_packs turns the
\* IOError the handler may raise into a fatal end.
save_site(db, st, lg, v, uninstall, o) ==
    IF st.exists /\ o.save
    THEN End(db,
             [st EXCEPT !.root = save_site_install(st.root, v.pack,
                                      db[v.pack].installed_version, uninstall)],
             Append(lg, Step(v, "save", TRUE)), "ok", "")
    ELSE IF st.exists
    THEN End(db, write_failed(st, o.created),
             Append(lg, Step(v, "save", FALSE)), "fatal",
             IF o.created THEN "cannot write install DB"
             ELSE "FileNotFoundError")
    ELSE End(db, st, Append(lg, Step(v, "save", FALSE)), "fatal", "IOError")

\* SourceVersion.install, from the install step on (lines 1081-1092).
SourceVersion_install_step(db, st, lg, v, o) ==
    LET p == v.pack
        kind == db[p].build
        res == Builder_install(kind, p, o)
        l1 == IF Builder_install_runs(kind)
              THEN Append(lg, Step(v, "install", o.install)) ELSE lg
    IN IF db[p].tool THEN End(db, st, lg, "ok", "")
       ELSE IF kind = None THEN End(db, st, lg, "raise", "AttributeError")
       ELSE IF res # ResNone
            THEN save_site(record_installed(db, p, get_version(v)), st, l1, v, res, o)
            ELSE End(db, st, l1, "fatal", "Installation failed")

\* SourceVersion.install (non-dry): download, build, install.
SourceVersion_install(db, st, lg, v, o) ==
    LET p == v.pack
        l1 == IF db[p].downloader # None
              THEN Append(lg, Step(v, "download", o.download)) ELSE lg
        l2 == IF db[p].build # None
              THEN Append(l1, Step(v, "build", o.build)) ELSE l1
    IN IF db[p].downloader # None /\ ~o.download
       THEN End(db, st, l1, "fatal", "Download failed")
       ELSE IF db[p].build # None /\ ~o.build
       THEN End(db, st, l2, "fatal", "Build failed")
       ELSE SourceVersion_install_step(db, st, l2, v, o)

\* BinaryVersion.install: download, unpack, run the install script, record.
\* Every failure is an IOError or a fatal error: the run ends fatally.  The
\* script of a package installs one file, named after the package here.
BinaryVersion_install(db, st, lg, v, o) ==
    LET l1 == Append(lg, Step(v, "download", o.download))
        l2 == Append(l1, Step(v, "unpack", o.build))
        l3 == Append(l2, Step(v, "install", o.install))
    IN IF ~o.download THEN End(db, st, l1, "fatal", "IOError")
       ELSE IF ~o.build THEN End(db, st, l2, "fatal", "cannot unpack")
       ELSE IF ~o.install THEN End(db, st, l3, "fatal", "IOError")
       ELSE save_site(record_installed(db, v.pack, v.version), st, l3, v,
                      ResList(<<Remove(v.pack)>>), o)

\* v.install(mon).
Version_install(db, st, lg, v, o) ==
    IF v.version = SRCE_VERS
    THEN SourceVersion_install(db, st, lg, v, o)
    ELSE BinaryVersion_install(db, st, lg, v, o)

\* --------------------------------------------------------------- load_db
\* Package.__init__ followed by "pack.installed = installed": the fields
\* load_db fills.  copyright, web and contact are read as category is.
NewPackage(installed) ==
    [license |-> None, license_url |-> None, category |-> None,
     reqs |-> <<>>, uses |-> <<>>, versions |-> <<>>, uninstall |-> <<>>,
     installed |-> installed, installed_version |-> None]

\* A <package> element: its id attribute, the text of its license and
\* category children, the names of its req and use children, its version
\* children, the dep children of its build child (None: no build child) and
\* the children of its uninstall child.  An absent attribute or child is
\* None, an absent build child NoBuild.
PackElt(id, license, category, req, use, version, build, uninstall) ==
    [id |-> id, version_attr |-> None, license |-> license,
     category |-> category, req |-> req, use |-> use, version |-> version,
     build |-> build, uninstall |-> uninstall]

NoBuild == [present |-> FALSE, dep |-> <<>>]

\* A <build> element with the given dep children.
Build(delts) == [present |-> TRUE, dep |-> delts]

\* to_str(s, d), s being the text of the element or None.
to_str(s, d) == IF s = None THEN d ELSE s

\* The keys of dep_makers.
dep_makers == {"command", "library"}

\* What a step of load_db leaves: the catalog, the probe registry, and the
\* exception raised if any.
Loading(db, deps, raises) == [DB |-> db, DEPS |-> deps, raises |-> raises]

\* "get binary versions": each version element is checked then appended;
\* the assertion stops the loop with the versions appended so far.
RECURSIVE load_db_versions(_, _)
load_db_versions(velts, versions) ==
    IF velts = <<>> THEN [versions |-> versions, raises |-> ""]
    ELSE IF Head(velts).number = None \/ Head(velts).file = None
    THEN [versions |-> versions, raises |-> "AssertionError"]
    ELSE load_db_versions(Tail(velts), Append(versions, Head(velts).number))

\* make_dep over the dep elements of a build element: a known probe is
\* taken from the registry, a new one of a known type is created, which
\* registers it (Dep.__init__), and an unknown type fails the assertion.
RECURSIVE load_db_deps(_, _)
load_db_deps(delts, deps) ==
    IF delts = <<>> THEN [DEPS |-> deps, raises |-> ""]
    ELSE IF Head(delts).name \in DOMAIN deps
    THEN load_db_deps(Tail(delts), deps)
    ELSE IF Head(delts).type \in dep_makers
    THEN load_db_deps(Tail(delts),
             [d \in DOMAIN deps \cup {Head(delts).name} |->
                 IF d \in DOMAIN deps THEN deps[d]
                 ELSE [tested |-> FALSE, succeeded |-> FALSE]])
    ELSE [DEPS |-> deps, raises |-> "AssertionError"]

\* The catalog where id is bound to pack.
Bind(db, id, pack) ==
    [i \in DOMAIN db \cup {id} |-> IF i = id THEN pack ELSE db[i]]

\* The body of "for p in root.findall("package")" (lines 1229-1308) on the
\* element p.  The Package object is in the catalog from line 1238 on, so
\* what is assigned to it before an assertion fails stays.
load_db_package(db, deps, p, installed, host_type) ==
    IF p.id = None THEN Loading(db, deps, "AssertionError")
    ELSE
    LET pack0 == IF p.id \in DOMAIN db THEN db[p.id]
                 ELSE NewPackage(installed)
        pack1 == [pack0 EXCEPT
                     !.license = p.license,
                     !.category = to_str(p.category, @),
                     !.installed = IF installed THEN TRUE ELSE @,
                     !.installed_version =
                         IF ~installed THEN @
                         ELSE IF p.version_attr = None THEN NULL_VERS
                         ELSE p.version_attr,
                     !.reqs = @ \o p.req,
                     !.uses = p.use]
        vr == load_db_versions(p.version, pack1.versions)
        pack2 == [pack1 EXCEPT !.versions = vr.versions]
        dr == IF ~p.build.present THEN [DEPS |-> deps, raises |-> ""]
              ELSE load_db_deps(p.build.dep, deps)
        pack3 == IF ~p.build.present THEN pack2
                 ELSE [pack2 EXCEPT !.versions = Append(@, SRCE_VERS)]
        ur == load_db_uninstall(p.uninstall, host_type)
        pack4 == [pack3 EXCEPT !.uninstall = @ \o ur.actions]
    IN  IF vr.raises # "" THEN Loading(Bind(db, p.id, pack2), deps, vr.raises)
        ELSE IF dr.raises # ""
        THEN Loading(Bind(db, p.id, pack2), dr.DEPS, dr.raises)
        ELSE IF ~installed THEN Loading(Bind(db, p.id, pack3), dr.DEPS, "")
        ELSE Loading(Bind(db, p.id, pack4), dr.DEPS, ur.raises)

\* The loop over the package elements; it stops at the first exception.
RECURSIVE load_db_packages(_, _, _, _, _)
load_db_packages(db, deps, ps, installed, host_type) ==
    IF ps = <<>> THEN Loading(db, deps, "")
    ELSE LET r == load_db_package(db, deps, Head(ps), installed, host_type)
         IN IF r.raises # "" THEN r
            ELSE load_db_packages(r.DB, r.DEPS, Tail(ps), installed,
                                  host_type)

\* load_db(url, mon, installed) on the document behind url: fault tells
\* that the document cannot be fetched (URLError), is not XML (ParseError)
\* or has another root tag (assertion of line 1214); the document has no
\* message nor version element.  raises is the exception that makes load_db
\* return an error message, or "" when it returns None.
load_db(db, deps, doc, host_type) ==
    IF doc.fault # None THEN Loading(db, deps, doc.fault)
    ELSE load_db_packages(db, deps, doc.packages, doc.installed, host_type)

\* ------------------------------------------------------------------ Init
\* The <package> element of a catalog document, build part.
Profile(tool, versions, downloader, build, depelts) ==
    [tool |-> tool, versions |-> versions, downloader |-> downloader,
     build |-> build, depelts |-> depelts]

\* A source-only package built by a command, nothing to download.
Plain == Profile(FALSE, <<SRCE_VERS>>, None, "command", <<>>)

\* The build descriptions the catalogs are drawn from.
Profiles ==
    {Plain,
     Profile(FALSE, <<SRCE_VERS>>, "git", "make", <<>>),
     Profile(FALSE, <<SRCE_VERS>>, "git", "cmake", <<"libz">>),
     Profile(FALSE, <<SRCE_VERS>>, "archive", "command", <<"libqt", "flex">>),
     Profile(TRUE, <<SRCE_VERS>>, None, "make", <<>>),
     Profile(FALSE, <<SRCE_VERS>>, "hg", None, <<>>),
     Profile(FALSE, <<"1">>, None, None, <<>>),
     Profile(FALSE, <<"1", "2">>, None, None, <<>>),
     Profile(FALSE, <<>>, None, None, <<>>)}

\* The catalog with a fixed build description per package, used where the
\* requirement graph varies.
Mixed ==
    [p \in Packs |->
        CASE p = "A" -> Plain
          [] p = "B" -> Profile(FALSE, <<"1", SRCE_VERS>>, None, "cmake", <<>>)
          [] OTHER -> Plain]

\* The req and use references between distinct packages.
Edges == {e \in [kind : {"req", "use"}, from : Packs, to : Packs] :
              e.from # e.to}

\* Package.__init__ followed by load_db and resolve_reqs: the Package object
\* of p, installed when the local catalog document mentions it.
Package(p, prof, graph, inst) ==
    [tool |-> prof.tool,
     reqs |-> {e.to : e \in {x \in graph : x.kind = "req" /\ x.from = p}},
     uses |-> {e.to : e \in {x \in graph : x.kind = "use" /\ x.from = p}},
     versions |-> prof.versions,
     downloader |-> prof.downloader,
     build |-> prof.build,
     deps |-> IF SRCE_VERS \in Range(prof.versions)
              THEN SourceVersion_deps(prof.depelts, prof.downloader, prof.build)
              ELSE <<>>,
     installed |-> inst,
     installed_version |->
         IF ~inst THEN None
         ELSE IF prof.versions = <<>> THEN NULL_VERS ELSE prof.versions[1],
     uninstall |-> IF inst THEN <<Remove(p)>> ELSE <<>>,
     rank |-> NoRank]

RECURSIVE SetToSeq(_)
SetToSeq(S) ==
    IF S = {} THEN <<>>
    ELSE LET x == CHOOSE x \in S : TRUE IN <<x>> \o SetToSeq(S \ {x})

\* The local catalog document save_site has written for the installed
\* packages of db.
SiteOf(db) ==
    LET ps == SetToSeq({p \in Packs : db[p].installed})
    IN [i \in 1..Len(ps) |->
           Element(ps[i], db[ps[i]].installed_version,
                   <<[tag |-> "uninstall", actions |-> db[ps[i]].uninstall]>>)]

\* The document with the version attribute taken off the elements of bare.
DocOf(db, bare) ==
    LET root == SiteOf(db)
    IN [i \in 1..Len(root) |->
           IF root[i].id \in bare
           THEN Element(root[i].id, None, root[i].children)
           ELSE root[i]]

\* Faulty variant: the version attribute is taken as it is, absent or not.
load_db_installed_no_default(pack, elt) ==
    [pack EXCEPT !.installed = TRUE, !.installed_version = elt.version]

\* load_db(..., installed = True) on one package element of the local
\* catalog document: "pack.installed = True" and
\* "pack.installed_version = p.get("version", NULL_VERS)".
load_db_installed(pack, elt) ==
    [pack EXCEPT !.installed = TRUE,
                 !.installed_version =
                     IF elt.version = None THEN NULL_VERS ELSE elt.version]

\* The catalog once the local catalog document root is loaded over db.
load_db_site(db, root) ==
    [p \in Packs |->
        IF find_package(root, p) = 0 THEN db[p]
        ELSE load_db_installed(db[p], root[find_package(root, p)])]

\* The names a command line can give for p: the bare id, and id:version for
\* each version string that the bare id does not already select.
NamesOf(db, p) ==
    LET vers == db[p].versions
        bins == {i \in 1..Len(vers) : vers[i] # SRCE_VERS}
        bare == IF Cardinality(bins) = 1
                THEN {vers[i] : i \in bins}
                ELSE IF bins = {} THEN Range(vers) ELSE {}
    IN {Name(p, "latest")} \cup {Name(p, s) : s \in Range(vers) \ bare}

\* The directory the script is started in.
LaunchDir == "."

\* The command line and the host of a run in package-install mode.
Run(force, dry, doc, vfile) ==
    [force |-> force, dry |-> dry, doc |-> doc, vfile |-> vfile,
     mode |-> "install", debug |-> FALSE, bdir |-> FALSE, phony |-> FALSE,
     stdin |-> ""]

\* Monitor.__init__ followed by the settings of the main script.
Monitor(run) ==
    [force |-> run.force, dry |-> run.dry, errors |-> 0,
     build_dir |-> IF run.bdir THEN "given" ELSE None,
     allocated_build_dir |-> FALSE,
     log_file |-> None,
     allocated_log_file |-> FALSE,
     phony |-> run.phony,
     dirs |-> <<>>]

\* The catalogs, the execution context and the host once the catalogs are
\* loaded and resolved.
Loaded(db, root, run, ns) ==
    /\ DB = db
    /\ MONITOR = Monitor(run)
    /\ DEPS = [d \in Probes |-> [tested |-> FALSE, succeeded |-> FALSE]]
    /\ site = [exists |-> run.doc, root |-> root, old |-> NoFile]
    /\ version_file = run.vfile
    /\ mode = run.mode
    /\ DEBUG = run.debug
    /\ host = [scratch |-> FALSE, build_log |-> FALSE, cwd |-> LaunchDir]
    /\ effects = {}
    /\ packs = <<>>
    /\ stdin = run.stdin
    /\ loaded = {p \in Packs : db[p].installed}
    /\ names = ns
    /\ vs = {}
    /\ to_install = <<>>
    /\ done = <<>>
    /\ log = <<>>
    /\ exc = ""

\* No Action at hand.
NoScript ==
    [op |-> "", host_type |-> "", a |-> NoAction, elts |-> <<>>, out |-> <<>>]

\* The state of the script once the catalogs are loaded and resolved.
Start(db, root, run, ns) ==
    /\ Loaded(db, root, run, ns)
    /\ script = NoScript
    /\ pc = "main"

\* Catalogs with every requirement graph of at most MaxEdges references,
\* nothing installed, and packages requested by their bare id.
InitGraphs ==
    \E graph \in {g \in SUBSET Edges : Cardinality(g) <= MaxEdges} :
        LET db == [p \in Packs |-> Package(p, Mixed[p], graph, FALSE)]
            all == {Name(p, "latest") : p \in Packs}
        IN \E ns \in {S \in SUBSET all : S # {} /\ Cardinality(S) <= MaxNames} :
               Start(db, SiteOf(db), Run(FALSE, FALSE, TRUE, FALSE), ns)

\* A requires B, B requires C, A uses C.
Chain == {[kind |-> "req", from |-> "A", to |-> "B"],
          [kind |-> "req", from |-> "B", to |-> "C"]}

ChainUse == Chain \cup {[kind |-> "use", from |-> "A", to |-> "C"]}

\* Catalogs that keep any part of these references, where the local catalog
\* document marks up to MaxInstalled packages installed, with or without a
\* version attribute, with and without the force flag.
InitInstalled ==
    \E graph \in SUBSET ChainUse :
    \E inst \in {S \in SUBSET Packs : Cardinality(S) <= MaxInstalled} :
    \E bare \in SUBSET inst :
    \E force \in BOOLEAN :
        LET db0 == [p \in Packs |-> Package(p, Mixed[p], graph, p \in inst)]
            root == DocOf(db0, bare)
            db == load_db_site(db0, root)
            all == UNION {NamesOf(db, p) : p \in Packs}
        IN \E ns \in {S \in SUBSET all : S # {} /\ Cardinality(S) <= MaxNames} :
               Start(db, root, Run(force, FALSE, TRUE, FALSE), ns)

\* The ways a run is started: a dry run, a run without local catalog
\* document, a run from a directory holding a VERSION file, a plain run, a
\* run of the script with DEBUG set, a run with a build directory given.
Modes ==
    {[Run(FALSE, TRUE, TRUE, FALSE) EXCEPT !.dry = TRUE],
     Run(FALSE, FALSE, FALSE, FALSE),
     Run(FALSE, FALSE, TRUE, TRUE),
     Run(FALSE, FALSE, TRUE, FALSE),
     [Run(FALSE, FALSE, TRUE, FALSE) EXCEPT !.debug = TRUE],
     [Run(FALSE, FALSE, TRUE, FALSE) EXCEPT !.bdir = TRUE]}

\* Catalogs with the chain A requires B requires C, where up to MaxVariants
\* packages have any build description.
InitBuilds ==
    \E profs \in {f \in [Packs -> Profiles] :
                     Cardinality({p \in Packs : f[p] # Plain}) <= MaxVariants} :
    \E m \in Modes :
        LET db == [p \in Packs |-> Package(p, profs[p], Chain, FALSE)]
            all == UNION {NamesOf(db, p) : p \in Packs}
        IN \E ns \in {S \in SUBSET all : S # {} /\ Cardinality(S) <= MaxNames} :
               Start(db, SiteOf(db), m, ns)

\* Runs in source-only mode (-S) on the same catalogs, dry or not, with or
\* without the build directory the mode asks for.
InitSources ==
    \E profs \in {f \in [Packs -> Profiles] :
                     Cardinality({p \in Packs : f[p] # Plain}) <= MaxVariants} :
    \E dry \in BOOLEAN, bdir \in BOOLEAN :
        LET db == [p \in Packs |-> Package(p, profs[p], Chain, FALSE)]
            all == UNION {NamesOf(db, p) : p \in Packs}
        IN \E ns \in {S \in SUBSET all : S # {} /\ Cardinality(S) <= MaxNames} :
               Start(db, <<>>,
                     [Run(FALSE, dry, FALSE, FALSE) EXCEPT !.mode = "source",
                                                           !.bdir = bdir],
                     ns)

\* Runs in uninstall mode (-u): any part of the chain as requirement graph,
\* any set of installed packages, packages named by their id, and the line
\* the user will type when asked.
InitUninstall ==
    \E graph \in SUBSET Chain :
    \E inst \in SUBSET Packs :
    \E line \in {"yes", "no"} :
        LET db0 == [p \in Packs |-> Package(p, Mixed[p], graph, p \in inst)]
            root == DocOf(db0, {})
            db == load_db_site(db0, root)
            all == {Name(p, "latest") : p \in Packs}
        IN \E ns \in {S \in SUBSET all : S # {} /\ Cardinality(S) <= MaxNames} :
               Start(db, root,
                     [Run(FALSE, FALSE, TRUE, FALSE) EXCEPT !.mode = "uninstall",
                                                            !.stdin = line],
                     ns)

Init ==
    InitGraphs \/ InitInstalled \/ InitBuilds \/ InitSources \/ InitUninstall

\* File names, and the attributes an action element may carry.
Paths == {"foo", "bar"}

AttrNames == {"path", "file", "to", "dynlib"}

\* Every action element over Paths, with a known tag or not.
ActionElts ==
    {ActionElt(tag, attrib) :
        tag \in {"install", "remove", "patch"},
        attrib \in UNION {[D -> Paths] : D \in SUBSET AttrNames}}

\* The elements scripts are made of: a well-formed install and a
\* well-formed remove, an unknown tag, an install without file, a remove
\* without path.
ScriptElts ==
    {ActionElt("install", [k \in {"file"} |-> "foo"]),
     ActionElt("remove", [k \in {"path"} |-> "bar"]),
     ActionElt("patch", [k \in {"file"} |-> "foo"]),
     ActionElt("install", [k \in {"to"} |-> "bar"]),
     ActionElt("remove", <<>>)}

Scripts == UNION {[1..n -> ScriptElts] : n \in 0..MaxScript}

\* Every Remove and every Install over Paths.
ActionSet ==
    {Remove(path) : path \in Paths}
    \cup {Install(path, to) : path \in Paths, to \in Paths \cup {None}}

\* What is tried on Actions and action elements: an Action is saved and
\* parsed again, or reversed; an element is parsed; an install script is run
\* by BinaryVersion.install; an uninstall block is loaded by load_db.
Tries ==
    {[op |-> "save", host_type |-> h, a |-> a, elts |-> <<>>, out |-> <<>>] :
        h \in {"linux-x86_64"}, a \in ActionSet}
    \cup
    {[op |-> "reverse", host_type |-> h, a |-> a, elts |-> <<>>,
      out |-> <<>>] : h \in {"linux-x86_64"}, a \in ActionSet}
    \cup
    {[op |-> "parse", host_type |-> h, a |-> NoAction, elts |-> <<e>>,
      out |-> <<>>] : h \in KNOWN_CONFIGS, e \in ActionElts}
    \cup
    {[op |-> o, host_type |-> h, a |-> NoAction, elts |-> es, out |-> <<>>] :
        o \in {"install", "load"}, h \in {"linux-x86_64"}, es \in Scripts}

\* The texts of at most n characters of the alphabet S.
TextsOver(S, n) == UNION {[1..k -> S] : k \in 0..n}

\* Version strings: short ones over two digits and the blank, and the two
\* of the example.
VersionTexts ==
    TextsOver({"1", "2", " "}, MaxText)
    \cup {<<"1", ".", "2">>, <<"1", ".", "1", "0">>, <<"9">>, <<"1", "0">>}

\* The pieces the evaluated texts are made of: the variables A and B, the
\* escape, and single characters.
Pieces ==
    {<<"$", "(", "A", ")">>, <<"$", "(", "B", ")">>, <<"$", "$">>, <<"x">>,
     <<"$">>, <<"(">>}

RECURSIVE Flatten(_)
Flatten(ps) == IF ps = <<>> THEN <<>> ELSE Head(ps) \o Flatten(Tail(ps))

\* The texts of at most MaxText pieces.
EvalTexts == {Flatten(ps) : ps \in TextsOver(Pieces, MaxText)}

\* The values the variable A may have; B is never set.
EvalValues == {<<"1">>, <<>>, <<"$", "(", "A", ")">>, <<"$">>}

\* The environment of the Monitor where A has the given value.
EnvOf(value) == [n \in {<<"A">>} |-> value]

\* What is tried on texts: two version strings are compared, or a text is
\* evaluated where A has a value.
TextTries ==
    {[op |-> "compare", host_type |-> "", a |-> NoAction,
      elts |-> <<v1, v2>>, out |-> <<>>] :
        v1 \in VersionTexts, v2 \in VersionTexts}
    \cup
    {[op |-> "eval", host_type |-> "", a |-> NoAction,
      elts |-> <<t, v>>, out |-> <<>>] :
        t \in EvalTexts, v \in EvalValues}

\* A run of the script taken where it has texts at hand.
InitText ==
    /\ Loaded([p \in Packs |-> Package(p, Mixed[p], Chain, FALSE)], <<>>,
              Run(FALSE, FALSE, TRUE, FALSE), {Name("A", "latest")})
    /\ script \in TextTries
    /\ pc = "texts"

\* A run of the script on a catalog where nothing is installed yet, taken
\* where it has an Action or action elements at hand.
InitActions ==
    /\ Loaded([p \in Packs |-> Package(p, Mixed[p], Chain, FALSE)], <<>>,
              Run(FALSE, FALSE, TRUE, FALSE), {Name("A", "latest")})
    /\ script \in Tries
    /\ pc = "actions"

\* The version elements of a package element: well formed, or without
\* number.
VersionElts == {[number |-> "1", file |-> "f"], [number |-> None, file |-> "f"]}

\* The package elements documents are made of: for A and B the bare
\* element and the elements with one part more, for A the elements with a
\* part that is malformed, and the element without id.
PackElts ==
    UNION {{PackElt(id, None, None, <<>>, <<>>, <<>>, NoBuild, <<>>),
            PackElt(id, "GPL", "tools", <<>>, <<>>, <<>>, NoBuild, <<>>),
            PackElt(id, None, None, <<"C">>, <<"C">>, <<>>, NoBuild, <<>>),
            PackElt(id, None, None, <<>>, <<>>, <<>>, NoBuild,
                    <<ActionElt("remove", [k \in {"path"} |-> "bar"])>>)}
           : id \in {"A", "B"}}
    \cup {PackElt("A", None, None, <<>>, <<>>, <<>>, NoBuild,
                  <<ActionElt("patch", [k \in {"file"} |-> "foo"])>>)}
    \cup {PackElt("A", None, None, <<>>, <<>>, <<v>>, NoBuild, <<>>) :
              v \in VersionElts}
    \cup {PackElt("A", None, None, <<>>, <<>>, <<>>,
                  Build(<<[name |-> "libz", type |-> t]>>), <<>>) :
              t \in {"library", "plugin"}}
    \cup {PackElt(None, None, None, <<>>, <<>>, <<>>, NoBuild, <<>>)}

\* A catalog document and how it is loaded.
Doc(fault, installed, packages) ==
    [fault |-> fault, installed |-> installed, packages |-> packages]

\* The documents of at most MaxElts package elements, loaded as remote or
\* as local catalog, and the documents that cannot be read.
Docs ==
    {Doc(None, i, ps) : i \in BOOLEAN, ps \in TextsOver(PackElts, MaxElts)}
    \cup {Doc(f, FALSE, <<>>) : f \in {"URLError", "ParseError",
                                       "AssertionError"}}

\* The script before any catalog is loaded: DB is empty and DEPS holds the
\* predefined probes; docs are the documents it will load, in order.
InitLoad ==
    /\ DB = [i \in {} |-> NewPackage(FALSE)]
    /\ DEPS = [d \in Probes \ CatalogDeps |->
                  [tested |-> FALSE, succeeded |-> FALSE]]
    /\ MONITOR = Monitor(Run(FALSE, FALSE, TRUE, FALSE))
    /\ site = [exists |-> TRUE, root |-> <<>>, old |-> NoFile]
    /\ version_file = FALSE
    /\ mode = "install"
    /\ DEBUG = FALSE
    /\ host = [scratch |-> FALSE, build_log |-> FALSE, cwd |-> LaunchDir]
    /\ effects = {}
    /\ packs = <<>>
    /\ stdin = ""
    /\ loaded = {}
    /\ names = {}
    /\ vs = {}
    /\ to_install = <<>>
    /\ done = <<>>
    /\ log = <<>>
    /\ exc = ""
    /\ \E docs \in TextsOver(Docs, MaxDocs) :
           script = [op |-> "load_db", host_type |-> "linux-x86_64",
                     a |-> NoAction, elts |-> docs, out |-> <<>>]
    /\ pc = "loading"

\* --------------------------------------------------------------- actions
\* Monitor.fatal: the error is counted and the process exits with status 1.
fatal(mon) == [mon EXCEPT !.errors = @ + 1]

\* Monitor.get_build_dir: the scratch directory is created on first use
\* unless the command line gave a build directory.
get_build_dir(mh) ==
    IF mh.mon.build_dir = None
    THEN [mon |-> [mh.mon EXCEPT !.build_dir = "tmp",
                                 !.allocated_build_dir = TRUE],
          host |-> [mh.host EXCEPT !.scratch = TRUE]]
    ELSE mh

\* Monitor.get_log_file: build.log is opened in the working directory on
\* first use.
get_log_file(mh) ==
    IF mh.mon.log_file = None
    THEN [mon |-> [mh.mon EXCEPT !.log_file = "open",
                                 !.allocated_log_file = TRUE],
          host |-> [mh.host EXCEPT !.build_log = TRUE]]
    ELSE mh

\* Faulty variant: nothing is removed.
cleanup_nothing(mon, h) == h

\* Monitor.cleanup.
cleanup(mon, h) ==
    [scratch |-> IF ~DEBUG /\ mon.allocated_build_dir THEN FALSE
                 ELSE h.scratch,
     build_log |-> IF mon.errors = 0 /\ mon.allocated_log_file THEN FALSE
                   ELSE h.build_log,
     cwd |-> h.cwd]

\* mon.fatal(msg) as a step of the script: the error is counted, cleanup
\* runs and the process exits with status 1.
Monitor_fatal(mh, msg) ==
    /\ MONITOR' = fatal(mh.mon)
    /\ host' = cleanup(fatal(mh.mon), mh.host)
    /\ exc' = msg
    /\ pc' = "exit1"

\* The execution context and the host, as one value.
Now == [mon |-> MONITOR, host |-> host]

\* Whether a started step asks for the build directory, for the log file.
uses_build_dir(db, s) ==
    IF s.v.version # SRCE_VERS THEN s.step = "download"
    ELSE s.step \in {"download", "build", "install"}

uses_log_file(db, s) ==
    /\ s.v.version = SRCE_VERS
    /\ \/ s.step = "download" /\ db[s.v.pack].downloader \in {"hg", "git"}
       \/ s.step \in {"build", "install"}

\* What a started step of Version.install does to the environment: a file
\* is downloaded, a child process is run, an Action is performed, the local
\* catalog document is rewritten.
effects_of_step(db, s) ==
    IF s.v.version # SRCE_VERS
    THEN CASE s.step = "download" -> {"download"}
           [] s.step = "unpack" -> {"process"}
           [] s.step = "install" -> {"action"}
           [] OTHER -> {"rewrite"}
    ELSE CASE s.step = "download" ->
                 IF db[s.v.pack].downloader = "archive"
                 THEN {"download", "process"} ELSE {"process"}
           [] s.step = "save" -> {"rewrite"}
           [] OTHER -> {"process"}

effects_of(db, steps) ==
    UNION {effects_of_step(db, steps[i]) : i \in 1..Len(steps)}

\* os.chdir(path).
chdir(mh, path) == [mh EXCEPT !.host.cwd = path]

\* Monitor.push_dir and Monitor.pop_dir.
push_dir(mh, path) ==
    chdir([mh EXCEPT !.mon.dirs = Append(@, mh.host.cwd)], path)

pop_dir(mh) ==
    chdir([mh EXCEPT !.mon.dirs = SubSeq(@, 1, Len(@) - 1)],
          mh.mon.dirs[Len(mh.mon.dirs)])

\* The directory a package is unpacked or fetched into, below the build
\* directory.
dir_of(p) == "build/" \o p

\* default_unpack: the working directory is changed for the command and
\* put back in the finally clause.
default_unpack(mh, p) == chdir(chdir(mh, "build"), mh.host.cwd)

\* What a started step of Version.install does to the working directory
\* and to the directory stack.  Binary version: unpack goes through
\* default_unpack, and the install step does os.chdir(dpath) before the
\* actions are performed (lines 1019-1020), old_cwd being never used.
\* Source version: the build and install methods of the builders push the
\* directory of the package and pop it after the command, whatever the
\* command returned; Builder.install of the command builder runs nothing.
chdir_step(mh, db, s) ==
    IF s.v.version # SRCE_VERS
    THEN CASE s.step = "unpack" -> default_unpack(mh, s.v.pack)
           [] s.step = "install" -> chdir(mh, dir_of(s.v.pack))
           [] OTHER -> mh
    ELSE CASE s.step = "build" -> pop_dir(push_dir(mh, dir_of(s.v.pack)))
           [] s.step = "install" ->
                 IF Builder_install_runs(db[s.v.pack].build)
                 THEN pop_dir(push_dir(mh, dir_of(s.v.pack)))
                 ELSE mh
           [] OTHER -> mh

RECURSIVE chdir_steps(_, _, _)
chdir_steps(mh, db, steps) ==
    IF steps = <<>> THEN mh
    ELSE chdir_steps(chdir_step(mh, db, Head(steps)), db, Tail(steps))

\* The context and the host after the started steps.
after_steps(mh, db, steps) ==
    LET m1 == IF \E i \in 1..Len(steps) : uses_build_dir(db, steps[i])
              THEN get_build_dir(mh) ELSE mh
        m2 == IF \E i \in 1..Len(steps) : uses_log_file(db, steps[i])
              THEN get_log_file(m1) ELSE m1
    IN chdir_steps(m2, db, steps)

\* The rank memo kept in the Package objects.
Ranks(db) == [p \in Packs |-> db[p].rank]

WithRanks(db, rk) == [p \in Packs |-> [db[p] EXCEPT !.rank = rk[p]]]

\* is_ready and req_ready of install_packs.
is_ready(v) == v \in Range(done) \/ DB[v.pack].installed

req_ready(v) == \A rv \in to_install[v] : is_ready(rv)

\* The key sorted() sorts by: v.pack.get_rank(), once the ranks are computed.
rank_key(v, rk) == rk[v.pack]

\* Faulty variant: the ready versions are not sorted by rank.
first_unsorted(ready, rk) == ready

\* sorted(filter(req_ready, to_install), key = ...)[0]: the versions that can
\* come first.  The sort is stable and the order of the keys of to_install
\* is the order in which close_packs popped them from a set.
first_sorted(ready, rk) ==
    {v \in ready : \A w \in ready : rank_key(v, rk) <= rank_key(w, rk)}

\* del to_install[v].
\* Faulty variant: the version stays in the work map.
del_nothing(m, v) == m

del(m, v) == [x \in DOMAIN m \ {v} |-> m[x]]

\* The main script, "perform actions": get_versions(args.packages, MONITOR).
GetVersions ==
    /\ pc = "main"
    /\ mode \in {"install", "source"}
    /\ IF get_versions_raises(names)
       THEN /\ pc' = "crash"
            /\ exc' = "AttributeError"
            /\ UNCHANGED <<vs, MONITOR, host>>
       ELSE IF get_versions_fatal(names)
       THEN /\ Monitor_fatal(Now, "unknown version")
            /\ UNCHANGED vs
       ELSE /\ pc' = IF mode = "source" THEN "install_sources"
                     ELSE "install_packs"
            /\ vs' = get_versions(names)
            /\ UNCHANGED <<exc, MONITOR, host>>
    /\ UNCHANGED <<DB, DEPS, site, names, to_install, done, log, version_file,
                   loaded, mode, packs, stdin, script, DEBUG, effects>>

\* install_packs up to the scheduling loop: close_packs, then the test of
\* every probe of the work set (lines 1537-1552).
InstallPacksBegin ==
    /\ pc = "install_packs"
    /\ \E vmap \in vmaps(vs) :
        IF close_packs_raises(vs, vmap, MONITOR.force)
        THEN /\ pc' = "crash"
             /\ exc' = "AttributeError"
             /\ UNCHANGED <<to_install, DEPS, MONITOR, host>>
        ELSE LET work == close_packs(vs, vmap, MONITOR.force)
                 used == UNION {Range(deps_of(v)) : v \in DOMAIN work}
             IN /\ to_install' = work
                /\ IF MONITOR.dry
                   THEN /\ pc' = "loop"
                        /\ UNCHANGED <<DEPS, MONITOR, host, exc>>
                   ELSE \E avail \in SUBSET used :
                        \E r \in test_all(DOMAIN work,
                                          [deps |-> DEPS, failed |-> 0], avail) :
                            LET mh == IF \E d \in LibraryDeps :
                                             r.deps[d].tested /\ ~DEPS[d].tested
                                      THEN get_log_file(Now) ELSE Now
                            IN /\ DEPS' = r.deps
                               /\ IF r.failed # 0
                                  THEN Monitor_fatal(mh, "dependency(ies) failed")
                                  ELSE /\ pc' = "loop"
                                       /\ MONITOR' = mh.mon
                                       /\ host' = mh.host
                                       /\ UNCHANGED exc
    /\ UNCHANGED <<DB, site, names, vs, done, log, version_file, loaded, mode, packs, stdin, script,
                   DEBUG, effects>>

\* One iteration of "while to_install" (lines 1561-1571).
InstallPacksLoop ==
    /\ pc = "loop"
    /\ DOMAIN to_install # {}
    /\ LET ready == {v \in DOMAIN to_install : req_ready(v)}
       IN IF ready = {}
          THEN \* sorted(...)[0] of an empty list
               /\ pc' = "crash"
               /\ exc' = "IndexError"
               /\ UNCHANGED <<DB, MONITOR, host, site, to_install, done, log,
                              effects>>
          ELSE IF \E v \in ready : get_rank_raises(v.pack)
          THEN /\ pc' = "crash"
               /\ exc' = "RecursionError"
               /\ UNCHANGED <<DB, MONITOR, host, site, to_install, done, log,
                              effects>>
          ELSE LET rk == get_rank_fold({v.pack : v \in ready}, Ranks(DB))
                   db1 == WithRanks(DB, rk)
               IN \E v \in first_sorted(ready, rk) :
                  /\ to_install' = del(to_install, v)
                  /\ IF MONITOR.dry
                     THEN /\ DB' = db1
                          /\ done' = Append(done, v)
                          /\ UNCHANGED <<MONITOR, host, site, log, pc, exc,
                                         effects>>
                     ELSE \E o \in Outcomes :
                          \E r \in {Version_install(db1, site, log, v, o)} :
                          LET new == SubSeq(r.log, Len(log) + 1, Len(r.log))
                              mh == after_steps(Now, db1, new)
                          IN /\ DB' = r.DB
                             /\ effects' = effects \cup effects_of(db1, new)
                             /\ site' = r.site
                             /\ log' = r.log
                             /\ CASE r.end = "ok" ->
                                       /\ done' = Append(done, v)
                                       /\ MONITOR' = mh.mon
                                       /\ host' = mh.host
                                       /\ exc' = r.exc
                                       /\ UNCHANGED pc
                                  [] r.end = "fatal" ->
                                       /\ Monitor_fatal(mh, r.exc)
                                       /\ UNCHANGED done
                                  [] OTHER ->
                                       /\ pc' = "crash"
                                       /\ MONITOR' = mh.mon
                                       /\ host' = mh.host
                                       /\ exc' = r.exc
                                       /\ UNCHANGED done
    /\ UNCHANGED <<DEPS, names, vs, version_file, loaded, mode, packs, stdin, script, DEBUG>>

\* The loop ends with to_install empty, install_packs returns and the script
\* ends with exit status 0.
InstallPacksEnd ==
    /\ pc = "loop"
    /\ DOMAIN to_install = {}
    /\ pc' = "exit0"
    /\ UNCHANGED <<DB, MONITOR, DEPS, site, names, vs, to_install, done, log,
                   exc, version_file, loaded, mode, packs, stdin, script, DEBUG, host, effects>>

\* install_sources up to its loop (lines 1495-1498); no Makefile is asked.
InstallSourcesBegin ==
    /\ pc = "install_sources"
    /\ IF MONITOR.build_dir = None
       THEN /\ Monitor_fatal(Now, "to use -S, you have to specify a directory")
            /\ UNCHANGED to_install
       ELSE \E vmap \in vmaps(vs) :
            IF close_packs_raises(vs, vmap, MONITOR.force)
            THEN /\ pc' = "crash"
                 /\ exc' = "AttributeError"
                 /\ UNCHANGED <<to_install, MONITOR, host>>
            ELSE /\ to_install' = close_packs(vs, vmap, MONITOR.force)
                 /\ pc' = "sources"
                 /\ UNCHANGED <<MONITOR, host, exc>>
    /\ UNCHANGED <<DB, DEPS, site, names, vs, done, log, version_file, loaded,
                   mode, packs, stdin, script, DEBUG, effects>>

\* Downloader.download of a source version, as SourceVersion.download calls
\* it: what it does to the context, the host and the environment, and
\* whether it reports success.  existed: the target directory is already
\* there; fetched, unpacked, cloned: what the network and the tools answer.
Downloader_download(kind, mh, existed, fetched, unpacked, cloned) ==
    CASE kind \in {"hg", "git"} ->
            LET m1 == get_log_file(get_build_dir(mh))
            IN [mh |-> m1,
                effects |-> (IF existed THEN {"delete"} ELSE {})
                            \cup (IF m1.mon.dry THEN {} ELSE {"process"}),
                ok |-> ~m1.mon.dry /\ cloned,
                fatal |-> ""]
      [] kind = "archive" ->
            [mh |-> get_build_dir(mh),
             effects |-> IF fetched THEN {"download", "process"} ELSE {},
             ok |-> fetched /\ unpacked,
             fatal |-> IF fetched /\ ~unpacked THEN "cannot unpack" ELSE ""]
      [] OTHER -> [mh |-> mh, effects |-> {}, ok |-> TRUE, fatal |-> ""]

\* One iteration of "for p in to_install" of install_sources (lines
\* 1517-1523); to_install holds the keys the loop has still to visit.
InstallSourcesLoop ==
    /\ pc = "sources"
    /\ \E p \in DOMAIN to_install :
       LET s == source(p.pack)
           kind == DB[p.pack].downloader
       IN /\ to_install' = del(to_install, p)
          /\ IF s = NoVersion
             THEN \* mon.warn("... %s" % s.name) with s = None
                  /\ pc' = "crash"
                  /\ exc' = "AttributeError"
                  /\ UNCHANGED <<MONITOR, host, log, effects>>
             ELSE IF kind = None
             THEN UNCHANGED <<MONITOR, host, log, effects, pc, exc>>
             ELSE \E existed, fetched, unpacked, cloned \in BOOLEAN :
                  LET r == Downloader_download(kind, Now, existed, fetched,
                                               unpacked, cloned)
                  IN /\ log' = Append(log, Step(s, "download", r.ok))
                     /\ effects' = effects \cup r.effects
                     /\ IF r.ok
                        THEN /\ MONITOR' = r.mh.mon
                             /\ host' = r.mh.host
                             /\ UNCHANGED <<pc, exc>>
                        ELSE Monitor_fatal(r.mh,
                                 IF r.fatal # "" THEN r.fatal
                                 ELSE "Download failed")
    /\ UNCHANGED <<DB, DEPS, site, names, vs, done, version_file, loaded, mode, packs, stdin, script,
                   DEBUG>>

\* The loop of install_sources is over: sys.exit(0).
InstallSourcesEnd ==
    /\ pc = "sources"
    /\ DOMAIN to_install = {}
    /\ pc' = "exit0"
    /\ UNCHANGED <<DB, MONITOR, DEPS, site, names, vs, to_install, done, log,
                   exc, version_file, loaded, mode, packs, stdin, script, DEBUG, host, effects>>

\* The orders in which the command line can give the names of S.
RECURSIVE Orders(_)
Orders(S) ==
    IF S = {} THEN {<<>>}
    ELSE UNION {{<<x>> \o t : t \in Orders(S \ {x})} : x \in S}

\* The main script, "perform actions": get_packs(args.packages, MONITOR);
\* every name is the id of a package of the catalog.
GetPacks ==
    /\ pc = "main"
    /\ mode = "uninstall"
    /\ \E order \in Orders(names) :
           packs' = [i \in 1..Len(order) |-> order[i].pack]
    /\ pc' = "uninstall_packs"
    /\ UNCHANGED <<DB, MONITOR, DEPS, site, names, vs, to_install, done, log,
                   exc, version_file, loaded, mode, stdin, script, DEBUG, host,
                   effects>>

\* Faulty variant: the question is taken as answered yes.
ask_yes_no_always(mon, line) == TRUE

\* Monitor.ask_yes_no: False in phony mode, else whether the line read is
\* "yes".
ask_yes_no(mon, line) ==
    IF mon.phony THEN FALSE ELSE line = "yes"

\* The function uninstall_packs closes over: for each package, the list of
\* the installed packages that require it.
dependents(db) ==
    [p \in Packs |->
        SetToSeq({u \in Packs : p \in db[u].reqs /\ db[u].installed})]

\* uninstall_packs up to its loop (lines 1578-1592): the working directory
\* becomes mon.top_dir for the loop.
UninstallPacksBegin ==
    /\ pc = "uninstall_packs"
    /\ LET upacks == do_closure(dependents(DB), packs)
       IN IF \E i \in 1..Len(packs) : ~DB[packs[i]].installed
          THEN /\ Monitor_fatal(Now, "package is not installed!")
               /\ UNCHANGED packs
          ELSE IF Len(upacks) > 0 /\ ~ask_yes_no(MONITOR, stdin)
          THEN /\ Monitor_fatal(Now, "Uninstallation aborted.")
               /\ UNCHANGED packs
          ELSE /\ packs' = packs \o upacks
               /\ pc' = "uninstalling"
               /\ host' = chdir(Now, "top_dir").host
               /\ UNCHANGED <<MONITOR, exc>>
    /\ UNCHANGED <<DB, DEPS, site, names, vs, to_install, done, log,
                   version_file, loaded, mode, stdin, script, DEBUG, effects>>

\* Monitor.error: the error is counted unless the context is phony.
error(mon) == IF mon.phony THEN mon ELSE [mon EXCEPT !.errors = @ + 1]

\* The remove case of save_site on the parsed document (lines 1341-1343).
save_site_remove(root, id) ==
    IF find_package(root, id) = 0 THEN root
    ELSE RemoveAt(root, find_package(root, id))

\* One iteration of "for pack in packs" of uninstall_packs (lines
\* 1593-1598): each uninstall action is performed, removed telling whether
\* the file could be removed, then save_site(..., None, True) rewrites the
\* document; nothing catches what save_site raises.
UninstallPacksLoop ==
    /\ pc = "uninstalling"
    /\ packs # <<>>
    /\ \E removed, save, created \in BOOLEAN :
       LET pack == Head(packs)
           acts == DB[pack].uninstall
           v == V(pack, DB[pack].installed_version)
           mon == IF acts # <<>> /\ ~removed THEN error(MONITOR) ELSE MONITOR
           steps == [i \in 1..Len(acts) |-> Step(v, "uninstall", removed)]
       IN /\ effects' = effects \cup (IF acts # <<>> THEN {"action"} ELSE {})
                                 \cup (IF site.exists /\ save THEN {"rewrite"}
                                       ELSE {})
          /\ log' = Append(log \o steps, Step(v, "save", site.exists /\ save))
          /\ IF ~site.exists
             THEN /\ pc' = "crash"
                  /\ exc' = "FileNotFoundError"
                  /\ MONITOR' = mon
                  /\ UNCHANGED <<site, host, packs>>
             ELSE IF save
             THEN /\ site' = [site EXCEPT
                                 !.root = save_site_remove(site.root, pack)]
                  /\ packs' = Tail(packs)
                  /\ MONITOR' = mon
                  /\ UNCHANGED <<pc, exc, host>>
             ELSE IF created
             THEN /\ site' = write_failed(site, created)
                  /\ Monitor_fatal([mon |-> mon, host |-> host],
                                   "cannot write install DB")
                  /\ UNCHANGED packs
             ELSE /\ site' = write_failed(site, created)
                  /\ pc' = "crash"
                  /\ exc' = "FileNotFoundError"
                  /\ MONITOR' = mon
                  /\ UNCHANGED <<host, packs>>
    /\ UNCHANGED <<DB, DEPS, names, vs, to_install, done, version_file, loaded,
                   mode, stdin, script, DEBUG>>

\* The loop of uninstall_packs is over: os.chdir(old_dir), old_dir being the
\* directory the script is started in, which nothing changes before
\* uninstall_packs; the script ends.
UninstallPacksEnd ==
    /\ pc = "uninstalling"
    /\ packs = <<>>
    /\ host' = chdir(Now, LaunchDir).host
    /\ pc' = "exit0"
    /\ UNCHANGED <<DB, MONITOR, DEPS, site, names, vs, to_install, done, log,
                   exc, version_file, loaded, mode, packs, stdin, script, DEBUG,
                   effects>>

\* save_action then get_action on the element it made.
SaveThenParse ==
    /\ pc = "actions"
    /\ script.op = "save"
    /\ script' = [script EXCEPT
                     !.elts = save_action(<<>>, script.a),
                     !.out = <<get_action(save_action(<<>>, script.a)[1],
                                          script.host_type)>>]
    /\ pc' = "applied"
    /\ UNCHANGED <<DB, MONITOR, DEPS, site, names, vs, to_install, done, log,
                   exc, version_file, loaded, mode, packs, stdin, DEBUG, host,
                   effects>>

\* action.reverse().
Reverse ==
    /\ pc = "actions"
    /\ script.op = "reverse"
    /\ script' = [script EXCEPT !.out = <<reverse(script.a)>>]
    /\ pc' = "applied"
    /\ UNCHANGED <<DB, MONITOR, DEPS, site, names, vs, to_install, done, log,
                   exc, version_file, loaded, mode, packs, stdin, DEBUG, host,
                   effects>>

\* get_action(elt, mon).
GetAction ==
    /\ pc = "actions"
    /\ script.op = "parse"
    /\ script' = [script EXCEPT
                     !.out = <<get_action(script.elts[1], script.host_type)>>]
    /\ pc' = "applied"
    /\ UNCHANGED <<DB, MONITOR, DEPS, site, names, vs, to_install, done, log,
                   exc, version_file, loaded, mode, packs, stdin, DEBUG, host,
                   effects>>

\* BinaryVersion.install from the parsing of the install script to the
\* list of the uninstall actions (lines 1003-1025): the Actions are
\* performed and their reverses kept, or the IOError of a bad element
\* reaches mon.fatal.
RunInstallScript ==
    /\ pc = "actions"
    /\ script.op = "install"
    /\ LET r == install_script(script.elts, script.host_type)
       IN IF r.raises # ""
          THEN /\ Monitor_fatal(Now, r.raises)
               /\ UNCHANGED <<script, effects>>
          ELSE /\ script' = [script EXCEPT !.out = r.actions]
               /\ effects' = IF r.actions # <<>> THEN {"action"} ELSE {}
               /\ pc' = "applied"
               /\ UNCHANGED <<MONITOR, host, exc>>
    /\ UNCHANGED <<DB, DEPS, site, names, vs, to_install, done, log,
                   version_file, loaded, mode, packs, stdin, DEBUG>>

\* load_db on the uninstall block of an installed package (lines
\* 1301-1313): the Actions are kept, or the load ends with "DB format
\* error", which the main script does not look at.
LoadUninstall ==
    /\ pc = "actions"
    /\ script.op = "load"
    /\ LET r == load_db_uninstall(script.elts, script.host_type)
       IN /\ script' = [script EXCEPT !.out = r.actions]
          /\ exc' = IF r.raises # "" THEN "DB format error" ELSE ""
          /\ pc' = "applied"
    /\ UNCHANGED <<DB, MONITOR, DEPS, site, names, vs, to_install, done, log,
                   version_file, loaded, mode, packs, stdin, DEBUG, host,
                   effects>>

NextActions ==
    \/ SaveThenParse
    \/ Reverse
    \/ GetAction
    \/ RunInstallScript
    \/ LoadUninstall

SpecActions == InitActions /\ [][NextActions]_vars

\* is_younger and is_older on two version strings.
Compare ==
    /\ pc = "texts"
    /\ script.op = "compare"
    /\ script' = [script EXCEPT
                     !.out = <<is_younger(script.elts[1], script.elts[2]),
                               is_older(script.elts[1], script.elts[2])>>]
    /\ pc' = "applied"
    /\ UNCHANGED <<DB, MONITOR, DEPS, site, names, vs, to_install, done, log,
                   exc, version_file, loaded, mode, packs, stdin, DEBUG, host,
                   effects>>

\* Monitor.eval on a text.
Eval ==
    /\ pc = "texts"
    /\ script.op = "eval"
    /\ script' = [script EXCEPT
                     !.out = <<eval(EnvOf(script.elts[2]), script.elts[1])>>]
    /\ pc' = "applied"
    /\ UNCHANGED <<DB, MONITOR, DEPS, site, names, vs, to_install, done, log,
                   exc, version_file, loaded, mode, packs, stdin, DEBUG, host,
                   effects>>

NextText ==
    \/ Compare
    \/ Eval

SpecText == InitText /\ [][NextText]_vars

\* One call of load_db by the script, on the next document; out keeps
\* what each call returned.
LoadDb ==
    /\ pc = "loading"
    /\ Len(script.out) < Len(script.elts)
    /\ LET r == load_db(DB, DEPS, script.elts[Len(script.out) + 1],
                        script.host_type)
       IN /\ DB' = r.DB
          /\ DEPS' = r.DEPS
          /\ script' = [script EXCEPT
                           !.out = Append(@, IF r.raises = "" THEN None
                                             ELSE IF r.raises = "URLError"
                                             THEN "error on load"
                                             ELSE "DB format error")]
    /\ UNCHANGED <<MONITOR, site, pc, names, vs, to_install, done, log, exc,
                   version_file, loaded, mode, DEBUG, host, packs, stdin,
                   effects>>

NextLoad ==
    \/ LoadDb

SpecLoad == InitLoad /\ [][NextLoad]_vars

Next ==
    \/ GetVersions
    \/ InstallPacksBegin
    \/ InstallPacksLoop
    \/ InstallPacksEnd
    \/ InstallSourcesBegin
    \/ InstallSourcesLoop
    \/ InstallSourcesEnd
    \/ GetPacks
    \/ UninstallPacksBegin
    \/ UninstallPacksLoop
    \/ UninstallPacksEnd

Spec == Init /\ [][Next]_vars

\* The runs in package-install mode on the catalogs that keep any part of
\* the chain, and on the cycle A, B, C, with nothing installed.  The script
\* is a sequential program: as long as it has a next step it takes it.
InitInstall ==
    \E graph \in SUBSET ChainUse
                 \cup {Chain \cup {[kind |-> "req", from |-> "C", to |-> "A"]}} :
        LET db == [p \in Packs |-> Package(p, Mixed[p], graph, FALSE)]
            all == {Name(p, "latest") : p \in Packs}
        IN \E ns \in {S \in SUBSET all : S # {} /\ Cardinality(S) <= MaxNames} :
               Start(db, <<>>, Run(FALSE, FALSE, TRUE, FALSE), ns)

NextInstall ==
    \/ GetVersions
    \/ InstallPacksBegin
    \/ InstallPacksLoop
    \/ InstallPacksEnd

SpecInstall == InitInstall /\ [][NextInstall]_vars /\ WF_vars(NextInstall)

\* ---------------------------------------------------------------- claims
\* The requirement graph has no cycle through reqs and uses.
Acyclic == \A p \in Packs : ~get_rank_raises(p)

\* The packages of the versions installed so far, in order.
DonePacks == [i \in 1..Len(done) |-> done[i].pack]

\* The work map is the one close_packs returned: no iteration has run yet.
Closed == pc = "loop" /\ done = <<>> /\ log = <<>>

Keys == DOMAIN to_install

\* The catalog defines A, B and C, each with a version to install; A requires
\* B, B requires C, nothing is installed and A is requested for installation.
ChainScenario ==
    /\ mode = "install"
    /\ DB["A"].reqs = {"B"} /\ DB["B"].reqs = {"C"} /\ DB["C"].reqs = {}
    /\ \A p \in Packs : DB[p].uses = {} /\ DB[p].versions # <<>>
    /\ loaded = {}
    /\ names = {Name("A", "latest")}

\* C1: with an acyclic requirement graph, no version is installed before a
\* version of a package of its reqs or uses that the same run installs; and
\* with A requires B requires C, nothing installed and A requested, a run
\* that ends normally has installed C, B, A in this order.
C1_DependenciesFirst ==
    /\ Acyclic =>
          \A i, j \in 1..Len(done) :
              i < j => done[j].pack \notin Succ(done[i].pack)
    /\ (ChainScenario /\ pc = "exit0") => DonePacks = <<"C", "B", "A">>

C1_Witness ==
    ChainScenario /\ pc = "exit0" /\ ~MONITOR.dry /\ DonePacks = <<"C", "B", "A">>

\* C2 as stated: the map close_packs returns has every requested version as
\* a key (versions of installed packages that are not force-requested
\* excepted), and for every key v and every requirement of v's package that
\* is not installed, a version of it is a key and is in v's set.
C2_ClosedUnderReqs ==
    Closed =>
       /\ \A v \in vs : (~DB[v.pack].installed \/ MONITOR.force) => v \in Keys
       /\ \A v \in Keys : \A q \in DB[v.pack].reqs :
             ~DB[q].installed =>
                 \E w \in to_install[v] : w.pack = q /\ w \in Keys

\* C2 amended: the same, for the requirements that have at least one version.
C2_ClosedUnderReqsWithVersions ==
    Closed =>
       /\ \A v \in vs : (~DB[v.pack].installed \/ MONITOR.force) => v \in Keys
       /\ \A v \in Keys : \A q \in DB[v.pack].reqs :
             (~DB[q].installed /\ DB[q].versions # <<>>) =>
                 \E w \in to_install[v] : w.pack = q /\ w \in Keys

C2_Witness ==
    /\ Closed
    /\ \E v \in Keys : \E w \in to_install[v] : w \in Keys /\ w \notin vs

\* Every requested version belongs to a package the local catalog document
\* marked installed when it was loaded, and the force flag is not set.
AllInstalledNoForce ==
    /\ ~MONITOR.force
    /\ vs # {}
    /\ \A v \in vs : v.pack \in loaded

\* C3: requesting without the force flag versions of installed packages is a
\* no-op: every step of install_packs leaves the work set empty, installs
\* nothing, starts no step and leaves the packages (installed flag, installed
\* version, uninstall actions) and the local catalog document as they were.
C3_InstalledIsNoOp ==
    [][(AllInstalledNoForce /\ pc \in {"install_packs", "loop"}) =>
          /\ DOMAIN to_install' = {}
          /\ done' = <<>>
          /\ log' = <<>>
          /\ DB' = DB
          /\ site' = site
          /\ MONITOR' = MONITOR
          /\ pc' \in {"loop", "exit0"}]_vars

C3_Witness ==
    AllInstalledNoForce /\ pc = "exit0" /\ done = <<>> /\ log = <<>>

\* C4: a version of an installed package is a key of the map close_packs
\* returns exactly when the force flag is set and the version is requested;
\* and no step is ever run for a version of a package that was installed
\* before the run unless the force flag is set and the version is requested.
C4_InstalledKeyIffForced ==
    /\ Closed =>
          \A p \in Packs : \A v \in Versions(p) :
              DB[p].installed => (v \in Keys <=> (MONITOR.force /\ v \in vs))
    /\ mode = "install" =>
          \A v \in Range(done) \cup {log[i].v : i \in 1..Len(log)} :
              v.pack \in loaded => (MONITOR.force /\ v \in vs)

\* An installed package reached as a requirement, with the force flag set,
\* is not a key.
C4_Witness ==
    /\ Closed
    /\ MONITOR.force
    /\ \E u \in Keys : \E w \in to_install[u] :
          DB[w.pack].installed /\ w \notin Keys

\* Every rank that is set is the value get_rank defines.
RankOK ==
    \A p \in Packs :
        DB[p].rank # NoRank =>
           /\ \A q \in Succ(p) : DB[q].rank # NoRank /\ DB[p].rank > DB[q].rank
           /\ DB[p].rank = IF Succ(p) = {} THEN 0
                           ELSE 1 + Max({DB[q].rank : q \in Succ(p)})

Stuck == Keys # {} /\ \A v \in Keys : ~req_ready(v)

\* C6 as stated: when the scheduling loop meets a work set that is not empty
\* and has no ready member, the run ends with a fatal error (exit status 1).
C6_CycleIsFatal ==
    [][(pc = "loop" /\ Stuck) => (pc' = "exit1" /\ MONITOR'.errors > 0)]_vars

\* The run with the cycle has stopped on the exception of sorted(...)[0],
\* with no error counted.
C6_Crash ==
    pc = "crash" /\ exc = "IndexError" /\ MONITOR.errors = 0 /\ Stuck

\* The versions of the work set of the run: waiting, installed or tried.
Work == Keys \cup Range(done) \cup {log[i].v : i \in 1..Len(log)}

\* The probes attached to v, directly or through added_deps.
RECURSIVE AddedClosure(_)
AddedClosure(S) ==
    LET T == S \cup UNION {Range(added_deps(d)) : d \in S}
    IN IF T = S THEN S ELSE AddedClosure(T)

Attached(v) == AddedClosure(Range(deps_of(v)))

\* C7: in a non-dry run of install_packs, once a step of any installation
\* has started, every probe attached to a version of the work set has been
\* tested with success;
\* and when a tested probe has failed, the run has ended fatally and no
\* download, build or install step has started.
C7_ProbesBeforeInstall ==
    /\ (mode = "install" /\ ~MONITOR.dry /\ (log # <<>> \/ done # <<>>)) =>
          \A v \in Work : \A d \in Attached(v) :
              DEPS[d].tested /\ DEPS[d].succeeded
    /\ (\E d \in Probes : DEPS[d].tested /\ ~DEPS[d].succeeded) =>
          pc = "exit1" /\ log = <<>> /\ done = <<>>

C7_Witness ==
    /\ mode = "install"
    /\ ~MONITOR.dry
    /\ log # <<>>
    /\ \E v \in Work : \E d \in LibraryDeps : d \in Attached(v)

\* C8 as stated: a source installation records the package and rewrites the
\* local catalog document only when its download, build and install steps
\* all succeeded; a failed install step is the last step of the run, which
\* ends fatally.
C8_RecordedOnlyAfterSuccess ==
    \A i \in 1..Len(log) :
        /\ (log[i].step = "save" /\ log[i].v.version = SRCE_VERS) =>
              \A j \in 1..(i - 1) : log[j].v = log[i].v => log[j].ok
        /\ (log[i].step = "install" /\ ~log[i].ok) =>
              i = Len(log) /\ pc = "exit1"

\* A package built by cmake is marked installed and recorded in the local
\* catalog document after its install step failed.
C8_RecordedAfterFailure ==
    \E i, j \in 1..Len(log) :
        /\ i < j /\ log[i].v = log[j].v
        /\ log[i].step = "install" /\ ~log[i].ok
        /\ log[j].step = "save" /\ log[j].ok
        /\ DB[log[i].v.pack].build = "cmake"
        /\ DB[log[i].v.pack].installed
        /\ log[i].v.pack \notin loaded
        /\ \E k \in 1..Len(site.root) : site.root[k].id = log[i].v.pack

\* C9: when the installation of a non-tool version, binary or source, has
\* returned, the package is marked installed and the local catalog document
\* holds exactly one element with its id, whose version is the package's
\* installed version.
C9_DocumentReflectsInstall ==
    [][(~MONITOR.dry /\ Len(done') = Len(done) + 1) =>
          LET p == done'[Len(done')].pack
              S == {i \in 1..Len(site'.root) : site'.root[i].id = p}
          IN ~DB'[p].tool =>
                /\ DB'[p].installed
                /\ DB'[p].installed_version # None
                /\ site'.exists
                /\ Cardinality(S) = 1
                /\ \A i \in S :
                      site'.root[i].version = DB'[p].installed_version]_vars

C9_Witness ==
    /\ ~MONITOR.dry
    /\ pc = "exit0"
    /\ \E k \in 1..Len(done) : done[k].version # SRCE_VERS
    /\ \E k \in 1..Len(done) :
          done[k].version = SRCE_VERS /\ ~DB[done[k].pack].tool

\* C10 as stated: after a failed step of one version, no step of another
\* version is started, and the versions installed earlier in the run stay
\* marked installed and recorded in the local catalog document.
C10_FailureAbortsRun ==
    /\ \A i, j \in 1..Len(log) :
          (i < j /\ ~log[i].ok) => log[j].v = log[i].v
    /\ ~MONITOR.dry =>
          \A k \in 1..Len(done) :
              LET p == done[k].pack
              IN ~DB[p].tool =>
                    /\ DB[p].installed
                    /\ \E i \in 1..Len(site.root) : site.root[i].id = p

\* A version is installed after the install step of an earlier version of
\* the run has failed.
C10_ContinuesAfterFailure ==
    \E i, j \in 1..Len(log) :
        /\ i < j /\ ~log[i].ok
        /\ log[j].v.pack # log[i].v.pack
        /\ log[j].step = "save" /\ log[j].ok
        /\ log[j].v \in Range(done)
\* C11: in every reachable state, whatever was loaded from the local catalog
\* document, installed or uninstalled, a package with installed = True has
\* an installed_version that is not None.
C11_InstalledHasVersion ==
    \A p \in Packs : DB[p].installed => DB[p].installed_version # None

\* A package loaded from an element without version attribute, and another
\* one installed by the run.
C11_Witness ==
    /\ pc = "exit0"
    /\ \E p \in loaded : DB[p].installed_version = NULL_VERS
    /\ \E q \in Packs \ loaded : DB[q].installed /\ DB[q].installed_version # None

\* C12: every step that ends the run with exit status 1 is a call to
\* Monitor.fatal: it counts one more error (after the error of an uninstall
\* action that failed in the same iteration, if any), removes the scratch
\* directory the context allocated (unless DEBUG), keeps the log file, and
\* no step of the script follows it.
C12_FatalPath ==
    [][/\ pc # "exit1"
       /\ (pc' = "exit1") =>
             /\ \/ MONITOR'.errors = MONITOR.errors + 1
                \/ /\ mode = "uninstall"
                   /\ Len(log') > Len(log) + 1
                   /\ ~log'[Len(log) + 1].ok
                   /\ MONITOR'.errors = MONITOR.errors + 2
             /\ (MONITOR'.allocated_build_dir /\ ~DEBUG) => ~host'.scratch
             /\ (MONITOR'.allocated_build_dir /\ DEBUG) => host'.scratch
             /\ MONITOR'.allocated_log_file => host'.build_log
             /\ MONITOR'.errors > 0]_vars

\* The run has ended fatally after a step that used the scratch directory
\* and the log file.
C12_Witness ==
    /\ pc = "exit1"
    /\ ~DEBUG
    /\ MONITOR.allocated_build_dir /\ ~host.scratch
    /\ MONITOR.allocated_log_file /\ host.build_log
    /\ log # <<>>

\* C13 as stated: at the end of every run, normal or fatal, the scratch
\* directory the context allocated is removed unless DEBUG is set, and the
\* log file the context opened at its default path is removed when no error
\* was recorded.
C13_CleanupAtEnd ==
    pc \in {"exit0", "exit1"} =>
       /\ (MONITOR.allocated_build_dir /\ ~DEBUG) => ~host.scratch
       /\ (MONITOR.allocated_log_file /\ MONITOR.errors = 0) => ~host.build_log

\* A run has ended normally, without error, and has left its scratch
\* directory and its log file behind.
C13_LeftBehind ==
    /\ pc = "exit0"
    /\ ~DEBUG /\ MONITOR.errors = 0
    /\ MONITOR.allocated_build_dir /\ host.scratch
    /\ MONITOR.allocated_log_file /\ host.build_log

\* C14: in a dry run nothing happens outside the program: no child process,
\* no download, no deletion, no Action, no file created in the build
\* directory or for the log, and the local document stays as it was, in
\* package-install mode and in source-only mode alike.
C14_DryRunHasNoEffect ==
    [][MONITOR.dry => /\ effects' = {}
                      /\ host' = host
                      /\ site' = site]_vars

\* A dry source-only run that has downloaded an archive and run its unpacker.
C14_DryRunDownloads ==
    /\ MONITOR.dry
    /\ mode = "source"
    /\ {"download", "process"} \subseteq effects

\* C15: when writing the document fails inside save_site, the site path
\* afterwards holds the previous document: same content as before the call,
\* no missing file.
C15_FailedWriteRestores ==
    [][/\ site.exists
       /\ Len(log') > Len(log)
       /\ log'[Len(log')].step = "save"
       /\ ~log'[Len(log')].ok
       => /\ site'.exists
          /\ site'.root = site.root]_vars

\* A failed write has left the document under its backup name only.
C15_DocumentMissing ==
    /\ loaded # {}
    /\ ~site.exists
    /\ site.old.exists
    /\ site.old.root # <<>>
    /\ pc = "exit1"

\* The installed packages that require, directly or not, a package of S,
\* together with S.
RECURSIVE WithDependents(_)
WithDependents(S) ==
    LET T == S \cup {u \in Packs : DB[u].installed /\ DB[u].reqs \cap S # {}}
    IN IF T = S THEN S ELSE WithDependents(T)

\* The packages named on the command line.
Named == {n.pack : n \in names}

\* An uninstallation of installed packages that some other installed
\* package requires has got past the question.
Asked ==
    /\ mode = "uninstall"
    /\ pc \notin {"main", "uninstall_packs"}
    /\ \A p \in Named : DB[p].installed
    /\ \E p \in Named, u \in Packs : DB[u].installed /\ p \in DB[u].reqs

\* C16: uninstalling packages that installed packages require asks whether
\* to remove the dependents too.  Unless the answer is yes the run is
\* aborted: no uninstall action is performed and no package leaves the
\* local catalog document.  After a yes, every installed package requiring
\* a named one, directly or not, is uninstalled with them.
C16_DeclinedUninstallsNothing ==
    Asked =>
        IF stdin = "yes" /\ ~MONITOR.phony
        THEN pc = "uninstalling" /\ log = <<>>
                 => Range(packs) = WithDependents(Named)
        ELSE /\ pc = "exit1"
             /\ exc = "Uninstallation aborted."
             /\ log = <<>>
             /\ effects = {}
             /\ site.exists
             /\ \A p \in loaded : find_package(site.root, p) # 0

\* Uninstalling C was declined while B, installed, requires it.
C16_Witness ==
    /\ Asked
    /\ stdin = "no"
    /\ Named = {"C"}
    /\ DB["B"].installed
    /\ "C" \in DB["B"].reqs
    /\ pc = "exit1"
    /\ find_package(site.root, "B") # 0
    /\ find_package(site.root, "C") # 0

\* C17: an Action saved with save_action and parsed again with get_action
\* comes back as the same variant with the same fields.
C17_RoundTrip ==
    pc = "applied" /\ script.op = "save" => script.out = <<script.a>>

\* An Install of foo to bar has come back as an Install of foo to foo.
C17_TargetLost ==
    /\ pc = "applied"
    /\ script.op = "save"
    /\ script.a = Install("foo", "bar")
    /\ script.elts = <<ActionElt("install", [k \in {"file", "to"} |->
                                  IF k = "file" THEN "foo" ELSE "bar"])>>
    /\ script.out = <<Install("foo", "foo")>>

\* C18: the reverse of an Install from a to b is a Remove of b; the reverse
\* of a Remove is None.
C18_Reverse ==
    pc = "applied" /\ script.op = "reverse" =>
        /\ script.a.id = "install" => script.out = <<Remove(script.a.to)>>
        /\ script.a.id = "remove" => script.out = <<NoAction>>

\* An Install of foo to bar has been reversed.
C18_Witness ==
    /\ pc = "applied"
    /\ script.op = "reverse"
    /\ script.a = Install("foo", "bar")
    /\ script.out = <<Remove("bar")>>

\* The element at hand is an <install dynlib=.../> on a host whose
\* dynamic-library suffix is .so, and it has been parsed.
DynlibParsed ==
    /\ pc = "applied"
    /\ script.op = "parse"
    /\ script.host_type = "linux-x86_64"
    /\ script.elts[1].tag = "install"
    /\ "dynlib" \in DOMAIN script.elts[1].attrib

\* C19: parsing <install dynlib="foo"/> where the suffix is .so gives an
\* Install of foo.so to foo.so whose reverse is Remove of foo.so: the suffix
\* is appended once to the source and once to the target, and a "to"
\* attribute selects the target.
C19_SuffixOnce ==
    DynlibParsed =>
        LET attrib == script.elts[1].attrib
            a == script.out[1]
        IN /\ a.id = "install"
           /\ a.path = attrib["dynlib"] \o ".so"
           /\ IF "to" \in DOMAIN attrib
              THEN a.to \in {attrib["to"], attrib["to"] \o ".so"}
              ELSE /\ a.to = attrib["dynlib"] \o ".so"
                   /\ reverse(a) = Remove(attrib["dynlib"] \o ".so")

\* <install dynlib="foo"/> has given an Install of foo.so to foo.so.so.
C19_SuffixTwice ==
    /\ DynlibParsed
    /\ script.elts[1].attrib = [k \in {"dynlib"} |-> "foo"]
    /\ script.out = <<[id |-> "install", path |-> "foo.so",
                       to |-> "foo.so.so"]>>

\* An element with an unknown tag, an install without file nor dynlib, a
\* remove without path.
Malformed(elt) ==
    \/ elt.tag \notin {"install", "remove"}
    \/ elt.tag = "install" /\ DOMAIN elt.attrib \cap {"file", "dynlib"} = {}
    \/ elt.tag = "remove" /\ "path" \notin DOMAIN elt.attrib

\* The positions of the malformed elements at hand.
BadElts == {i \in 1..Len(script.elts) : Malformed(script.elts[i])}

\* C20 as stated: an element with an unknown tag or malformed attributes is
\* skipped, the other elements are parsed and used, and neither the
\* installation nor the load is aborted.
C20_BadElementSkipped ==
    script.op \in {"install", "load"} /\ pc # "actions" =>
        /\ pc = "applied"
        /\ exc = ""
        /\ script.out = SelectSeq(get_actions(script.elts, script.host_type),
                                  LAMBDA a : a # NoAction)

\* C20, amended: an element with an unknown tag or malformed attributes
\* gives no Action.  An install script holding one ends the installation
\* with the fatal error "bad action" before any Action is performed; an
\* uninstall block holding one ends the load with "DB format error", the
\* Actions of the elements before it being kept.  Without such element
\* every element gives its Action.
C20_BadElementAborts ==
    /\ pc = "applied" /\ script.op = "parse" /\ Malformed(script.elts[1])
           => script.out = <<NoAction>>
    /\ script.op = "install" /\ pc # "actions" =>
           IF BadElts # {}
           THEN /\ pc = "exit1"
                /\ exc = "bad action"
                /\ effects = {}
                /\ script.out = <<>>
           ELSE /\ pc = "applied"
                /\ script.out = get_actions(script.elts, script.host_type)
                /\ NoAction \notin Range(script.out)
    /\ script.op = "load" /\ pc # "actions" =>
           IF BadElts # {}
           THEN /\ exc = "DB format error"
                /\ \E i \in BadElts :
                       /\ \A j \in BadElts : i <= j
                       /\ script.out = SubSeq(get_actions(script.elts,
                                                  script.host_type), 1, i - 1)
           ELSE /\ exc = ""
                /\ script.out = get_actions(script.elts, script.host_type)

\* An install script with a well-formed install followed by an element of
\* unknown tag has ended the installation.
C20_Witness ==
    /\ script.op = "install"
    /\ Len(script.elts) = 2
    /\ ~Malformed(script.elts[1])
    /\ script.elts[2].tag = "patch"
    /\ pc = "exit1"
    /\ exc = "bad action"

\* C29: the list uninstall_packs works on holds no package twice, and no
\* package has its uninstall actions performed twice.
C29_UninstalledOnce ==
    mode = "uninstall" =>
        /\ pc = "uninstalling" =>
               \A i, j \in 1..Len(packs) : packs[i] = packs[j] => i = j
        /\ \A i, j \in 1..Len(log) :
               (/\ log[i].step = "uninstall"
                /\ log[j].step = "uninstall"
                /\ log[i].v.pack = log[j].v.pack) => i = j

\* B and C were named, B requires C: the Remove of B was performed twice.
C29_UninstalledTwice ==
    /\ mode = "uninstall"
    /\ Named = {"B", "C"}
    /\ "C" \in DB["B"].reqs
    /\ \E i, j \in 1..Len(log) :
           /\ i < j
           /\ log[i] = Step(V("B", DB["B"].installed_version), "uninstall", TRUE)
           /\ log[j].step = "uninstall"
           /\ log[j].v.pack = "B"

\* The uninstall blocks of the element at position i of the document.
UninstallBlocks(i) ==
    {k \in 1..Len(site.root[i].children) :
        site.root[i].children[k].tag = "uninstall"}

\* C30: whatever installs were made, each package element of the local
\* catalog document holds at most one uninstall block.
C30_OneUninstallBlock ==
    \A i \in 1..Len(site.root) : Cardinality(UninstallBlocks(i)) <= 1

\* A forced re-install of a package the document listed has left two
\* uninstall blocks in its element, the older one first.
C30_TwoUninstallBlocks ==
    /\ mode = "install"
    /\ MONITOR.force
    /\ \E i \in 1..Len(site.root) :
           /\ site.root[i].id \in loaded
           /\ Cardinality(UninstallBlocks(i)) = 2
           /\ \E j \in 1..Len(log) :
                  log[j] = Step(V(site.root[i].id, site.root[i].version),
                                "save", TRUE)

\* C27: with an acyclic catalog, the scheduling loop of install_packs always
\* comes to an end, and it never ends because no version could be chosen:
\* it stops early only when an installation ends the run.  Each iteration
\* takes out of the work set a version whose dependencies are all installed
\* or done, of lowest rank among those, that was not done before; the run
\* that ends normally leaves the work set empty.
C27_LoopTerminates ==
    /\ [][(mode = "install" /\ pc = "loop" /\ Len(done') > Len(done)) =>
              LET v == done'[Len(done')]
              IN /\ done' = Append(done, v)
                 /\ v \in Keys
                 /\ req_ready(v)
                 /\ v \notin Range(done)
                 /\ DOMAIN to_install' = Keys \ {v}
                 /\ RankOK'
                 /\ \A u \in Keys :
                        req_ready(u) => DB'[v.pack].rank <= DB'[u.pack].rank]_vars
    /\ [][(mode = "install" /\ pc = "loop" /\ Acyclic
             /\ pc' \in {"exit1", "crash"}) =>
              exc' \notin {"IndexError", "RecursionError"}]_vars
    /\ [](mode = "install" /\ pc = "exit0" => Keys = {})
    /\ (mode = "install" /\ Acyclic /\ pc = "loop")
           ~> (pc \in {"exit0", "exit1", "crash"})

\* A real run on an acyclic catalog has installed three versions, one after
\* the other, and ended with the work set empty.
C27_Witness ==
    /\ mode = "install"
    /\ Acyclic
    /\ ~MONITOR.dry
    /\ pc = "exit0"
    /\ Len(done) = 3
    /\ Cardinality(Range(done)) = 3
    /\ Keys = {}
    /\ \A i \in 1..Len(log) : log[i].ok

\* The list x is greater than the list y: at the first position where they
\* differ x has the greater string, or y is a proper prefix of x.
StrGreater(a, b) ==
    \E k \in 1..Len(a) :
        /\ \A j \in 1..(k - 1) : j <= Len(b) /\ a[j] = b[j]
        /\ k > Len(b) \/ (a[k] # b[k] /\ ord[a[k]] > ord[b[k]])

ListGreater(x, y) ==
    \E k \in 1..Len(x) :
        /\ \A j \in 1..(k - 1) : j <= Len(y) /\ x[j] = y[j]
        /\ k > Len(y) \/ (x[k] # y[k] /\ StrGreater(x[k], y[k]))

\* The text has no blank at position i and one, or an end, before it.
StartsWord(text, i) == text[i] # " " /\ (i = 1 \/ text[i - 1] = " ")

\* The whitespace-separated components of a text, in order.
Components(text) ==
    LET starts == {i \in 1..Len(text) : StartsWord(text, i)}
        stop(i) == CHOOSE j \in i..Len(text) :
                       /\ \A k \in i..j : text[k] # " "
                       /\ j = Len(text) \/ text[j + 1] = " "
        nth(n) == CHOOSE i \in starts :
                      Cardinality({j \in starts : j < i}) = n - 1
    IN [n \in 1..Cardinality(starts) |-> SubSeq(text, nth(n), stop(nth(n)))]

LatestAsked ==
    /\ mode \in {"install", "source"}
    /\ \A n \in names : n.sel = "latest"

\* C28: Package.latest never fails, and for a package with binary versions
\* it returns the binary version younger than every other one: get_versions,
\* which calls it for every name without version part, returns a set that
\* holds that version.
C28_LatestIsYoungest ==
    [][(pc = "main" /\ LatestAsked) =>
          /\ pc' # "crash"
          /\ \A n \in names :
                 Binaries(n.pack) # {} =>
                     \E v \in vs' :
                         /\ v.pack = n.pack
                         /\ v.version # SRCE_VERS
                         /\ \A i \in Binaries(n.pack) :
                                \/ DB[n.pack].versions[i] = v.version
                                \/ is_younger(<<v.version>>,
                                              <<DB[n.pack].versions[i]>>)]_vars

\* The latest version of a package with the binary versions 1 and 2 was
\* asked for: the run has stopped on AttributeError with no version found.
C28_LatestRaises ==
    /\ LatestAsked
    /\ \E n \in names : DB[n.pack].versions = <<"1", "2">>
    /\ pc = "crash"
    /\ exc = "AttributeError"
    /\ vs = {}

\* The text made from str, read from index i on, by giving for each
\* $(NAME) the value of NAME or nothing, for each $$ one $, and each other
\* character as it is; what a value brings in is not read again.
RECURSIVE Substituted(_, _, _)
Substituted(env, str, i) ==
    IF i > Len(str) THEN <<>>
    ELSE IF var_at(str, i, i).found
    THEN Monitor_get(env, var_at(str, i, i).group3, <<>>)
             \o Substituted(env, str, var_at(str, i, i).end)
    ELSE IF i + 1 <= Len(str) /\ str[i] = "$" /\ str[i + 1] = "$"
    THEN <<"$">> \o Substituted(env, str, i + 2)
    ELSE <<str[i]>> \o Substituted(env, str, i + 1)

\* C26: Monitor.eval replaces every $(NAME) of its text by the value of
\* NAME, or by nothing when NAME is unknown, and every $$ by one $, wherever
\* the occurrence stands, and does not expand the inserted text again.
C26_EvalSubstitutesAll ==
    (pc = "applied" /\ script.op = "eval")
        => script.out[1] = Substituted(EnvOf(script.elts[2]),
                                       script.elts[1], 1)

\* C26: the text $(A)$(A) where A is 1 is evaluated to 1$(A): the second
\* occurrence, directly after the substituted one, is kept.
C26_AdjacentVariableKept ==
    /\ pc = "applied"
    /\ script.op = "eval"
    /\ script.elts = <<(<<"$", "(", "A", ")", "$", "(", "A", ")">>), <<"1">>>>
    /\ script.out = <<(<<"1", "$", "(", "A", ")">>)>>

\* C24: in a source-only batch, the iteration of install_sources that visits
\* a package without source version fetches nothing for it, raises nothing
\* and leaves the loop going on with the remaining packages.
C24_SourcelessSkipped ==
    [][(/\ mode = "source"
        /\ pc = "sources"
        /\ \E p \in DOMAIN to_install :
               /\ p \notin DOMAIN to_install'
               /\ source(p.pack) = NoVersion)
           => (pc' = "sources" /\ UNCHANGED <<log, exc>>)]_vars

\* C24: the batch is aborted by an AttributeError on a package without
\* source version while a package with a source version is still to fetch.
C24_BatchAborted ==
    /\ mode = "source"
    /\ pc = "crash"
    /\ exc = "AttributeError"
    /\ \E p \in DOMAIN to_install : source(p.pack) # NoVersion

\* The package elements of the documents loaded so far, in order.
LoadedElts ==
    Flatten([i \in 1..Len(script.out) |-> script.elts[i].packages])

\* Every load so far has returned None.
AllLoaded == \A i \in 1..Len(script.out) : script.out[i] = None

\* C21: after loading any sequence of documents the catalog holds one
\* Package per id mentioned; a license or category given by some document is
\* still set, and reqs, uses and versions hold what every document that
\* mentions the package has contributed.
C21_MergeAugments ==
    (pc = "loading" /\ AllLoaded) =>
        /\ DOMAIN DB = {e.id : e \in Range(LoadedElts)}
        /\ \A e \in Range(LoadedElts) :
               /\ e.license # None => DB[e.id].license # None
               /\ e.category # None => DB[e.id].category # None
               /\ Range(e.req) \subseteq Range(DB[e.id].reqs)
               /\ Range(e.use) \subseteq Range(DB[e.id].uses)
               /\ \A v \in Range(e.version) :
                      v.number \in Range(DB[e.id].versions)
               /\ e.build.present => SRCE_VERS \in Range(DB[e.id].versions)

\* C21: two documents are loaded, the first gives package A a license and a
\* use, the second mentions A without them: A has no license and no use
\* left, while its category and its reqs are kept.
C21_LicenseAndUsesLost ==
    /\ pc = "loading"
    /\ Len(script.out) = 2
    /\ AllLoaded
    /\ \E e \in Range(script.elts[1].packages) :
           e.id = "A" /\ e.license # None /\ e.category # None
    /\ \E e \in Range(script.elts[1].packages) :
           e.id = "A" /\ e.use # <<>> /\ e.req # <<>>
    /\ DB["A"].license = None
    /\ DB["A"].uses = <<>>
    /\ DB["A"].category # None
    /\ DB["A"].reqs # <<>>

\* C22: a call of load_db that returns an error leaves the catalog and the
\* probe registry as they were before the call.
C22_FailedLoadLeavesNothing ==
    [][(/\ pc = "loading"
        /\ Len(script'.out) = Len(script.out) + 1
        /\ script'.out[Len(script'.out)] # None)
           => (DB' = DB /\ DEPS' = DEPS)]_vars

\* C22: the first load has returned a format error and the catalog, empty
\* before, holds a package, and the registry a probe it did not hold.
C22_PartialCatalog ==
    /\ pc = "loading"
    /\ script.out = <<"DB format error">>
    /\ DOMAIN DB # {}
    /\ "libz" \in DOMAIN DEPS

\* C23: every iteration of the install loop, whether the installation
\* succeeded or failed, leaves the working directory and the depth of the
\* directory stack of the Monitor as they were, and uninstall_packs returns
\* in the directory it was called in.
C23_DirectoryScoped ==
    [][/\ (mode = "install" /\ pc = "loop")
             => /\ host'.cwd = host.cwd
                /\ Len(MONITOR'.dirs) = Len(MONITOR.dirs)
       /\ (mode = "uninstall" /\ pc' = "exit0") => host'.cwd = LaunchDir]_vars

\* C23: a binary version is installed, the loop goes on, and the working
\* directory is the directory the package was unpacked into.
C23_LeftInUnpackDir ==
    /\ mode = "install"
    /\ pc = "loop"
    /\ done # <<>>
    /\ done[Len(done)].version # SRCE_VERS
    /\ log # <<>>
    /\ log[Len(log)] = Step(done[Len(done)], "save", TRUE)
    /\ host.cwd = dir_of(done[Len(done)].pack)
    /\ host.cwd # LaunchDir

====
